---- MODULE Spec2Model ----
(***************************************************************************)
(* Model of the render-diff engine of infra-tools:                         *)
(*   internal/renderdiff/engine.go  (Engine.Run, Engine.RunProgressive,     *)
(*                                   Engine.buildPair, NewEngine)           *)
(*   internal/renderdiff/diff.go    (computeDiff, HasDiff, countStats,      *)
(*                                   FromComponentPath)                     *)
(* Text is a sequence of one-character strings; a path or an environment   *)
(* is one atomic string that holds no newline.  A []byte is a record       *)
(* [isNil, bytes] so that a nil slice and an empty slice stay distinct.     *)
(***************************************************************************)
EXTENDS Integers, Sequences, FiniteSets, TLC

\* ------------------------------------------------------------------ bounds

\* Largest number of (component, environment) jobs of one run.
MaxJobs == 2

\* Largest concurrency asked of NewEngine; also the largest CPU count.
MaxConcurrency == 2

\* Largest capacity of the channel handed to RunProgressive.
MaxChanCap == 1

\* Longest rendering, in characters, of the enumerated snapshots.
MaxBlobLen == 3

\* ------------------------------------------------------------ byte strings

NL == "\n"

NilBytes == [isNil |-> TRUE, bytes |-> <<>>]

Bytes(s) == [isNil |-> FALSE, bytes |-> s]

\* string(b) of a []byte: a nil slice converts to the empty string.
String(b) == b.bytes

\* A local variable: F of the value of v, where v is evaluated once.
Let(v, F(_)) == CHOOSE r \in {F(x) : x \in {v}} : TRUE

Max(a, b) == IF a > b THEN a ELSE b

Min(a, b) == IF a < b THEN a ELSE b

\* strings.HasPrefix
HasPrefix(s, p) == Len(s) >= Len(p) /\ SubSeq(s, 1, Len(p)) = p

\* Index of the first sep in s at or after position i, 0 when there is none.
RECURSIVE IndexFrom(_, _, _)
IndexFrom(s, sep, i) ==
    IF i > Len(s) THEN 0
    ELSE IF s[i] = sep THEN i
    ELSE IndexFrom(s, sep, i + 1)

\* strings.SplitAfter(s, "\n"): the pieces keep their separator.
RECURSIVE SplitAfter(_)
SplitAfter(s) ==
    Let(IndexFrom(s, NL, 1), LAMBDA k :
        IF k = 0 THEN <<s>>
        ELSE <<SubSeq(s, 1, k)>>
             \o Let(SubSeq(s, k + 1, Len(s)), LAMBDA rest : SplitAfter(rest)))

\* strings.Split(s, "\n"): the pieces lose their separator.
RECURSIVE Split(_)
Split(s) ==
    Let(IndexFrom(s, NL, 1), LAMBDA k :
        IF k = 0 THEN <<s>>
        ELSE <<SubSeq(s, 1, k - 1)>>
             \o Let(SubSeq(s, k + 1, Len(s)), LAMBDA rest : Split(rest)))

\* difflib.SplitLines: SplitAfter, then a newline appended to the last piece.
SplitLines(s) ==
    Let(SplitAfter(s), LAMBDA lines : [lines EXCEPT ![Len(lines)] = @ \o <<NL>>])

RECURSIVE Concat(_)
Concat(ss) == IF ss = <<>> THEN <<>> ELSE Head(ss) \o Concat(Tail(ss))

\* Decimal digits of a natural number (fmt %d).
RECURSIVE Itoa(_)
Itoa(n) ==
    LET d == <<"0", "1", "2", "3", "4", "5", "6", "7", "8", "9">>[(n % 10) + 1]
    IN  IF n < 10 THEN <<d>> ELSE Itoa(n \div 10) \o <<d>>

\* ------------------------------------------------- difflib (unified diff)
\* github.com/pmezard/go-difflib as diff.go uses it: SequenceMatcher without
\* junk (the popularity heuristic needs 200 lines), 0-based half-open ranges.

\* Length of the common run of a and b that starts at a[i], b[j].
RECURSIVE MatchLen(_, _, _, _, _, _)
MatchLen(a, b, i, j, ahi, bhi) ==
    IF i < ahi /\ j < bhi /\ a[i + 1] = b[j + 1]
    THEN 1 + MatchLen(a, b, i + 1, j + 1, ahi, bhi)
    ELSE 0

\* The candidate starts with the length of their common run.
Runs(a, b, alo, ahi, blo, bhi) ==
    {[a |-> i, b |-> j, size |-> MatchLen(a, b, i, j, ahi, bhi)] :
        i \in alo .. ahi - 1, j \in blo .. bhi - 1}

\* x is at least as good a block as y: longer, or as long and earlier in a,
\* or as long, at the same place in a and not later in b.
Better(x, y) ==
    \/ x.size > y.size
    \/ x.size = y.size /\ x.a < y.a
    \/ x.size = y.size /\ x.a = y.a /\ x.b <= y.b

\* The best of the runs, or the empty block at (alo, blo).
BestRun(runs, alo, blo) ==
    IF \A r \in runs : r.size = 0
    THEN [a |-> alo, b |-> blo, size |-> 0]
    ELSE CHOOSE x \in runs : \A y \in runs : Better(x, y)

\* SequenceMatcher.findLongestMatch
FindLongestMatch(a, b, alo, ahi, blo, bhi) ==
    Let(Runs(a, b, alo, ahi, blo, bhi), LAMBDA runs : BestRun(runs, alo, blo))

\* The recursion of SequenceMatcher.GetMatchingBlocks, left to right: the
\* blocks left of the longest match m, m itself, the blocks right of it.
RECURSIVE MatchedBlocks(_, _, _, _, _, _)
RECURSIVE Around(_, _, _, _, _, _, _)
Around(a, b, alo, ahi, blo, bhi, m) ==
    IF m.size = 0 THEN <<>>
    ELSE (IF alo < m.a /\ blo < m.b
          THEN MatchedBlocks(a, b, alo, m.a, blo, m.b) ELSE <<>>)
         \o <<m>>
         \o (IF m.a + m.size < ahi /\ m.b + m.size < bhi
             THEN MatchedBlocks(a, b, m.a + m.size, ahi, m.b + m.size, bhi)
             ELSE <<>>)

MatchedBlocks(a, b, alo, ahi, blo, bhi) ==
    Let(FindLongestMatch(a, b, alo, ahi, blo, bhi), LAMBDA m :
        Around(a, b, alo, ahi, blo, bhi, m))

\* Adjacent blocks are collapsed into one; cur is the block being grown.
RECURSIVE Collapse(_, _)
Collapse(blocks, cur) ==
    IF blocks = <<>> THEN (IF cur.size > 0 THEN <<cur>> ELSE <<>>)
    ELSE IF cur.a + cur.size = blocks[1].a /\ cur.b + cur.size = blocks[1].b
         THEN Collapse(Tail(blocks), [cur EXCEPT !.size = @ + blocks[1].size])
         ELSE (IF cur.size > 0 THEN <<cur>> ELSE <<>>)
              \o Collapse(Tail(blocks), blocks[1])

\* SequenceMatcher.GetMatchingBlocks, with its closing (len a, len b, 0) block.
GetMatchingBlocks(a, b) ==
    Let(MatchedBlocks(a, b, 0, Len(a), 0, Len(b)), LAMBDA blocks :
        Collapse(blocks, [a |-> 0, b |-> 0, size |-> 0])
        \o <<[a |-> Len(a), b |-> Len(b), size |-> 0]>>)

OpCode(tag, i1, i2, j1, j2) ==
    [tag |-> tag, i1 |-> i1, i2 |-> i2, j1 |-> j1, j2 |-> j2]

\* The tag of the gap between (i, j) and the block m, "" when there is none.
GapTag(i, j, m) ==
    IF i < m.a /\ j < m.b THEN "r"
    ELSE IF i < m.a THEN "d"
    ELSE IF j < m.b THEN "i"
    ELSE ""

RECURSIVE OpCodesFrom(_, _, _)
OpCodesFrom(blocks, i, j) ==
    IF blocks = <<>> THEN <<>>
    ELSE (IF GapTag(i, j, blocks[1]) # ""
          THEN <<OpCode(GapTag(i, j, blocks[1]), i, blocks[1].a, j, blocks[1].b)>>
          ELSE <<>>)
         \o (IF blocks[1].size > 0
             THEN <<OpCode("e", blocks[1].a, blocks[1].a + blocks[1].size,
                                blocks[1].b, blocks[1].b + blocks[1].size)>>
             ELSE <<>>)
         \o OpCodesFrom(Tail(blocks), blocks[1].a + blocks[1].size,
                        blocks[1].b + blocks[1].size)

\* SequenceMatcher.GetOpCodes
GetOpCodes(a, b) ==
    Let(GetMatchingBlocks(a, b), LAMBDA blocks : OpCodesFrom(blocks, 0, 0))

\* An equal opcode cut to its last n lines.
KeepLast(c, n) == OpCode(c.tag, Max(c.i1, c.i2 - n), c.i2, Max(c.j1, c.j2 - n), c.j2)

\* An equal opcode cut to its first n lines.
KeepFirst(c, n) == OpCode(c.tag, c.i1, Min(c.i2, c.i1 + n), c.j1, Min(c.j2, c.j1 + n))

\* The loop of GetGroupedOpCodes: a run of more than 2n equal lines ends the
\* current group and starts the next one.
RECURSIVE GroupLoop(_, _, _, _)
GroupLoop(codes, grp, groups, n) ==
    IF codes = <<>>
    THEN IF Len(grp) > 0 /\ ~(Len(grp) = 1 /\ grp[1].tag = "e")
         THEN Append(groups, grp) ELSE groups
    ELSE IF codes[1].tag = "e" /\ codes[1].i2 - codes[1].i1 > n + n
         THEN GroupLoop(Tail(codes), <<KeepLast(codes[1], n)>>,
                        Append(groups, Append(grp, KeepFirst(codes[1], n))), n)
         ELSE GroupLoop(Tail(codes), Append(grp, codes[1]), groups, n)

\* No opcodes at all stand for one equal line.
OrOneEqual(codes) == IF codes = <<>> THEN <<OpCode("e", 0, 1, 0, 1)>> ELSE codes

\* A leading equal opcode keeps its last n lines.
FixLeading(codes, n) ==
    IF codes[1].tag = "e" THEN [codes EXCEPT ![1] = KeepLast(@, n)] ELSE codes

\* A trailing equal opcode keeps its first n lines.
FixTrailing(codes, n) ==
    IF codes[Len(codes)].tag = "e"
    THEN [codes EXCEPT ![Len(codes)] = KeepFirst(@, n)] ELSE codes

\* SequenceMatcher.GetGroupedOpCodes(n)
GetGroupedOpCodes(a, b, n) ==
    Let(GetOpCodes(a, b), LAMBDA codes :
        GroupLoop(FixTrailing(FixLeading(OrOneEqual(codes), n), n), <<>>, <<>>, n))

\* formatRangeUnified
FormatRangeUnified(start, stop) ==
    IF stop - start = 1 THEN Itoa(start + 1)
    ELSE Itoa(IF stop - start = 0 THEN start ELSE start + 1)
         \o <<",">> \o Itoa(stop - start)

\* Every line of lines[lo+1 .. hi] behind the prefix character.
Prefixed(prefix, lines, lo, hi) ==
    Concat([k \in 1 .. (hi - lo) |-> <<prefix>> \o lines[lo + k]])

\* The lines one opcode of a hunk writes.
OpCodeText(c, a, b) ==
    IF c.tag = "e" THEN Prefixed(" ", a, c.i1, c.i2)
    ELSE (IF c.tag \in {"r", "d"} THEN Prefixed("-", a, c.i1, c.i2) ELSE <<>>)
         \o (IF c.tag \in {"r", "i"} THEN Prefixed("+", b, c.j1, c.j2) ELSE <<>>)

\* One hunk: the @@ line and the lines of its opcodes.
HunkText(g, a, b) ==
    <<"@", "@", " ", "-">> \o FormatRangeUnified(g[1].i1, g[Len(g)].i2)
    \o <<" ", "+">> \o FormatRangeUnified(g[1].j1, g[Len(g)].j2)
    \o <<" ", "@", "@", NL>>
    \o Concat([k \in 1 .. Len(g) |-> OpCodeText(g[k], a, b)])

\* difflib.WriteUnifiedDiff into a string: the two file-header lines before
\* the first hunk, then every hunk.
WriteUnifiedDiff(groups, a, b, fromFile, toFile) ==
    IF groups = <<>> THEN <<>>
    ELSE <<"-", "-", "-", " ">> \o fromFile \o <<NL>>
         \o <<"+", "+", "+", " ">> \o toFile \o <<NL>>
         \o Concat([k \in 1 .. Len(groups) |-> HunkText(groups[k], a, b)])

\* difflib.GetUnifiedDiffString
GetUnifiedDiffString(a, b, fromFile, toFile, context) ==
    Let(GetGroupedOpCodes(a, b, context), LAMBDA groups :
        WriteUnifiedDiff(groups, a, b, fromFile, toFile))

\* ------------------------------------------------------------------ diff.go

\* A Go error: the chain of its messages, outermost first; nil is empty.
NoError == <<>>

\* fmt.Errorf(msg + ": %w", cause)
Errorf(msg, cause) == <<msg>> \o cause

\* FromComponentPath: a fresh ComponentDiff of one (component, environment).
FromComponentPath(cp, env) ==
    [Path       |-> cp.Path,
     ClusterDir |-> cp.ClusterDir,
     Env        |-> env,
     BaseYAML   |-> NilBytes,
     HeadYAML   |-> NilBytes,
     Diff       |-> <<>>,
     Added      |-> 0,
     Removed    |-> 0]

\* The lines that start with the mark and not with three of them.
Marked(lines, mark) ==
    Cardinality({k \in 1 .. Len(lines) :
                    /\ Len(lines[k]) > 0
                    /\ lines[k][1] = mark
                    /\ ~HasPrefix(lines[k], <<mark, mark, mark>>)})

\* countStats: the lines of the diff text that start with + (resp. -) and are
\* not prefixed by +++ (resp. ---).
CountStats(diff) ==
    Let(Split(diff), LAMBDA lines :
        [added |-> Marked(lines, "+"), removed |-> Marked(lines, "-")])

\* Lines of context of the unified diff.
Context == 3

\* Lines 56-57: the text and its counts are stored.
WithDiff(cd, text) ==
    Let(CountStats(text), LAMBDA stats :
        [cd EXCEPT !.Diff = text, !.Added = stats.added, !.Removed = stats.removed])

\* Lines 43-51: the unified diff of the two renderings, split into lines.
UnifiedDiff(cd) ==
    Let(SplitLines(String(cd.BaseYAML)), LAMBDA a :
        Let(SplitLines(String(cd.HeadYAML)), LAMBDA b :
            GetUnifiedDiffString(a, b, <<cd.Path, " (base)">>,
                                 <<cd.Path, " (head)">>, Context)))

\* Mutant of ComputeDiffOf: equal strings are handed to difflib as well.
ComputeDiffAlways(cd, writeErr) ==
    IF writeErr # NoError THEN [cd |-> cd, err |-> writeErr]
    ELSE [cd  |-> Let(UnifiedDiff(cd), LAMBDA text : WithDiff(cd, text)),
          err |-> NoError]

\* computeDiff: equal strings leave cd as it is; otherwise the unified diff of
\* the two renderings and its line counts.  writeErr is the error, if any, that
\* difflib.GetUnifiedDiffString returns.
ComputeDiffOf(cd, writeErr) ==
    IF String(cd.BaseYAML) = String(cd.HeadYAML) THEN [cd |-> cd, err |-> NoError]
    ELSE IF writeErr # NoError THEN [cd |-> cd, err |-> writeErr]
    ELSE [cd  |-> Let(UnifiedDiff(cd), LAMBDA text : WithDiff(cd, text)),
          err |-> NoError]

\* ComponentDiff.HasDiff
HasDiff(cd) == cd.Diff # <<>>

\* --------------------------------------------------- the two repositories
\* A RepoBuilder is a function of the relative path: whether the directory
\* exists, and what BuildKustomization returns for it (bytes and error).

Dir(yaml) == [exists |-> TRUE, yaml |-> yaml, err |-> NoError]

NoDir == [exists |-> FALSE, yaml |-> NilBytes, err |-> NoError]

BrokenDir == [exists |-> TRUE, yaml |-> NilBytes, err |-> <<"kustomize build failed">>]

Envs == {"staging", "production"}

ComponentPath(path) == [Path |-> path, ClusterDir |-> ""]

\* What the detector can report per environment, in its order.
AffectedUniverse ==
    [env \in Envs |->
        IF env = "staging"
        THEN <<ComponentPath("components/foo"), ComponentPath("components/bar"),
               ComponentPath("components/none")>>
        ELSE <<ComponentPath("components/foo"), ComponentPath("components/same"),
               ComponentPath("components/broken"), ComponentPath("components/gone")>>]

\* A directory whose name has the two underscores diffFileName writes for a
\* slash.
Underscored == "components__foo"

Paths ==
    UNION {{AffectedUniverse[env][k].Path : k \in DOMAIN AffectedUniverse[env]} :
           env \in Envs}
    \cup {Underscored}

\* The working tree: foo changed, bar added, same untouched, gone removed,
\* none missing, broken fails to build, components__foo added.
HeadRepo ==
    [p \in Paths |->
        CASE p = "components/foo"    -> Dir(Bytes(<<"a", ":", " ", "1", NL>>))
          [] p = Underscored         -> Dir(Bytes(<<"u", NL>>))
          [] p = "components/bar"    -> Dir(Bytes(<<"x", ":", " ", "y", NL>>))
          [] p = "components/same"   -> Dir(Bytes(<<"k", NL>>))
          [] p = "components/broken" -> BrokenDir
          [] OTHER                   -> NoDir]

\* The checkout of the base revision.
BaseRepo ==
    [p \in Paths |->
        CASE p = "components/foo"    -> Dir(Bytes(<<"a", ":", " ", "2", NL>>))
          [] p = "components/same"   -> Dir(Bytes(<<"k", NL>>))
          [] p = "components/broken" -> Dir(Bytes(<<"k", NL>>))
          [] p = "components/gone"   -> Dir(Bytes(<<"g", NL, "h", NL>>))
          [] OTHER                   -> NoDir]

\* The characters of the renderings that are enumerated: the two markers of
\* a unified diff, and the newline.
Chars == {"+", "-", NL}

\* What a BuildKustomization can return: nil, or any bytes of up to
\* MaxBlobLen characters.
Blobs ==
    {NilBytes} \cup {Bytes(s) : s \in UNION {[1 .. n -> Chars] : n \in 0 .. MaxBlobLen}}

\* The snapshots that hold at most the directory `path`, in any condition.
Snapshots(path) ==
    {[p \in Paths |-> IF p = path THEN e ELSE NoDir] :
        e \in {NoDir, BrokenDir} \cup {Dir(b) : b \in Blobs}}

\* RepoBuilder.DirExists
DirExists(repo, rel) == repo[rel].exists

\* RepoBuilder.BuildKustomization
BuildKustomization(repo, rel) == [yaml |-> repo[rel].yaml, err |-> repo[rel].err]

\* The error difflib's writer may return to computeDiff.
WriteErrors == {NoError, <<"write failed">>}

\* ---------------------------------------------------------------- inputs

\* The subsequences of s, in the order of s.
RECURSIVE SubSeqs(_)
SubSeqs(s) ==
    IF s = <<>> THEN {<<>>}
    ELSE LET rest == SubSeqs(Tail(s))
         IN  rest \cup {<<Head(s)>> \o r : r \in rest}

\* The affected maps of at most MaxJobs component paths: any environments,
\* each with some of the paths the detector can report for it.
AffectedMaps ==
    LET maps == UNION {[D -> UNION {SubSeqs(AffectedUniverse[env]) : env \in Envs}] :
                       D \in SUBSET Envs}
        total(m) == IF DOMAIN m = {} THEN 0
                    ELSE IF DOMAIN m = Envs
                         THEN Len(m["staging"]) + Len(m["production"])
                         ELSE LET e == CHOOSE x \in DOMAIN m : TRUE IN Len(m[e])
    IN  {m \in maps : /\ \A env \in DOMAIN m : m[env] \in SubSeqs(AffectedUniverse[env])
                      /\ total(m) <= MaxJobs}

\* The orders in which a range over the map can visit its keys.
KeyOrders(m) ==
    {o \in UNION {[1 .. n -> DOMAIN m] : n \in {Cardinality(DOMAIN m)}} :
        \A e \in DOMAIN m : \E k \in DOMAIN o : o[k] = e}

\* Lines 56-61: the jobs of the map, visited in the key order o.
RECURSIVE CollectJobs(_, _)
CollectJobs(m, o) ==
    IF o = <<>> THEN <<>>
    ELSE [k \in 1 .. Len(m[Head(o)]) |-> [cp |-> m[Head(o)][k], env |-> Head(o)]]
         \o CollectJobs(m, Tail(o))

\* ------------------------------------------------------------------ state

VARIABLES
    mode,          \* "Run" or "RunProgressive": the method that was called
    concurrency,   \* Engine.concurrency
    head,          \* Engine.head
    base,          \* Engine.base
    affected,      \* the argument: environment -> component paths
    chanCap,       \* capacity of the channel `out` (RunProgressive)
    runPc,         \* where the calling goroutine is
    jobs,          \* the local slice `jobs`
    next,          \* index of the next job the range loop hands to g.Go
    sem,           \* tokens in the errgroup's semaphore
    wg,            \* the errgroup's WaitGroup counter
    gerr,          \* the errgroup's first error
    mu,            \* the mutex: 0 when free, else the job that holds it
    result,        \* the accumulator: `results` of Run, `result` of RunProgressive
    ret,           \* what the call returned
    pc,            \* per job: where its goroutine is
    cd,            \* per job: its ComponentDiff
    tmp,           \* per job: the slice read by append, not yet stored
    calls,         \* per job: the RepoBuilder calls made so far
    buildErr,      \* per job: the error buildPair returned (logged, not kept)
    out,           \* the channel's buffer
    closed,        \* how many times close(out) ran
    recv,          \* what the consumer received
    sendOnClosed,  \* a send found the channel closed (a panic)
    mainPc,        \* where main is; "library" when the engine is called directly
    flags,         \* the command line: --output-mode, --output-dir, --open
    deferred,      \* the functions main has deferred
    cleanups,      \* how many times the worktree's cleanup ran
    todo,          \* the output modes the loop of main has not run yet
    hadError,      \* the local hadError of main
    stdout,        \* what main printed, in order
    files,         \* the .diff files of the output directory
    exitCode       \* the exit code of the process, -1 while it runs

vars == <<mode, concurrency, head, base, affected, chanCap, runPc, jobs, next,
          sem, wg, gerr, mu, result, ret, pc, cd, tmp, calls, buildErr, out,
          closed, recv, sendOnClosed, mainPc, flags, deferred, cleanups, todo,
          hadError, stdout, files, exitCode>>

cli == <<mainPc, flags, deferred, cleanups, todo, hadError, stdout, files,
         exitCode>>

inputs == <<mode, concurrency, head, base, affected, chanCap>>

group == <<sem, wg, gerr>>

channel == <<out, closed, recv, sendOnClosed>>

\* The zero ComponentDiff.
ZeroComponentDiff == FromComponentPath([Path |-> "", ClusterDir |-> ""], "")

\* The zero DiffResult.
EmptyResult == [Diffs |-> <<>>, TotalAdded |-> 0, TotalRemoved |-> 0]

\* A returned (*DiffResult, error): isNil tells a nil pointer.
Returned(isNil, dr, err) == [isNil |-> isNil, result |-> dr, err |-> err]

NotReturned == Returned(TRUE, EmptyResult, NoError)

\* Mutant of NewEngine: the concurrency is kept as it was given.
NewEngineKeepsAny(c, numCPU) == c

\* NewEngine: a concurrency of zero or less becomes runtime.NumCPU().
NewEngine(c, numCPU) == IF c <= 0 THEN numCPU ELSE c

\* Nothing collected, started, accumulated, sent or returned.
Fresh ==
    /\ jobs = <<>>
    /\ next = 1
    /\ sem = 0
    /\ wg = 0
    /\ gerr = NoError
    /\ mu = 0
    /\ result = EmptyResult
    /\ ret = NotReturned
    /\ pc = <<>>
    /\ cd = <<>>
    /\ tmp = <<>>
    /\ calls = <<>>
    /\ buildErr = <<>>
    /\ out = <<>>
    /\ closed = 0
    /\ recv = <<>>
    /\ sendOnClosed = FALSE

\* Before the call of Run / RunProgressive.
NotStarted == runPc = "collect" /\ Fresh

\* The engine is called as a library: there is no main.
Library ==
    /\ mainPc = "library"
    /\ flags = [outputMode |-> <<>>, outputDir |-> FALSE, openDiff |-> FALSE]
    /\ deferred = <<>>
    /\ cleanups = 0
    /\ todo = <<>>
    /\ hadError = FALSE
    /\ stdout = <<>>
    /\ files = {}
    /\ exitCode = -1

\* The capacities of the channel a caller can hand to the method.
ChanCaps == IF mode = "Run" THEN {0} ELSE 0 .. MaxChanCap

Init ==
    /\ mode \in {"Run", "RunProgressive"}
    /\ \E c \in -1 .. MaxConcurrency, numCPU \in 1 .. MaxConcurrency :
          concurrency = NewEngine(c, numCPU)
    /\ head = HeadRepo
    /\ base = BaseRepo
    /\ affected \in AffectedMaps
    /\ chanCap \in ChanCaps
    /\ NotStarted
    /\ Library

\* One component, whatever the two snapshots hold for it: the directory is
\* missing, or its build fails, or its build returns any of the blobs.
InitRenderings ==
    /\ mode \in {"Run", "RunProgressive"}
    /\ concurrency = NewEngine(0, 1)
    /\ head \in Snapshots("components/foo")
    /\ base \in Snapshots("components/foo")
    /\ affected = [env \in {"staging"} |-> <<ComponentPath("components/foo")>>]
    /\ chanCap \in ChanCaps
    /\ NotStarted
    /\ Library

\* ------------------------------------------------------- the calling side

\* defer close(out) of RunProgressive; Run has no channel.
DeferredClose == IF mode = "RunProgressive" THEN closed + 1 ELSE closed

\* Mutant of ReturnEmpty: no jobs is reported as an error.
ReturnEmptyAsError == Returned(TRUE, EmptyResult, <<"no components">>)

\* Lines 63-65 / 126-128: `return &DiffResult{}, nil`.
ReturnEmpty == Returned(FALSE, EmptyResult, NoError)

\* Lines 56-65 / 119-128: collect the jobs; none at all returns at once.
Collect ==
    /\ runPc = "collect"
    /\ \E o \in KeyOrders(affected) :
          LET js == CollectJobs(affected, o)
          IN  /\ jobs' = js
              /\ pc' = [i \in DOMAIN js |-> "pending"]
              /\ cd' = [i \in DOMAIN js |-> ZeroComponentDiff]
              /\ tmp' = [i \in DOMAIN js |-> <<>>]
              /\ calls' = [i \in DOMAIN js |-> <<>>]
              /\ buildErr' = [i \in DOMAIN js |-> NoError]
              /\ IF Len(js) = 0
                 THEN /\ runPc' = "returned"
                      /\ ret' = ReturnEmpty
                      /\ closed' = DeferredClose
                 ELSE /\ runPc' = "dispatch"
                      /\ UNCHANGED <<ret, closed>>
    /\ UNCHANGED <<cli, inputs, next, group, mu, result, out, recv, sendOnClosed>>

\* Mutant of SetLimit: a limit one too large.
SetLimitOneMore == concurrency + 1

\* g.SetLimit(e.concurrency): the capacity of the semaphore.
SetLimit == concurrency

\* g.Go of the range loop: blocks while the semaphore is full, then starts the
\* goroutine of the next job.
Go(i) ==
    /\ runPc = "dispatch"
    /\ i = next
    /\ i <= Len(jobs)
    /\ sem < SetLimit
    /\ sem' = sem + 1
    /\ wg' = wg + 1
    /\ next' = next + 1
    /\ pc' = [pc EXCEPT ![i] = "headDir"]
    /\ UNCHANGED <<cli, inputs, runPc, jobs, gerr, mu, result, ret, cd, tmp, calls,
                   buildErr, channel>>

\* Mutant of WaitReturns: the wait is over once every job was handed to g.Go.
WaitReturnsEarly == TRUE

\* g.Wait returns once every goroutine that was started is done.
WaitReturns == wg = 0

\* Lines 101-105: Run sums the counts of the collected diffs.
RECURSIVE SumAdded(_)
SumAdded(ds) == IF ds = <<>> THEN 0 ELSE Head(ds).Added + SumAdded(Tail(ds))

RECURSIVE SumRemoved(_)
SumRemoved(ds) == IF ds = <<>> THEN 0 ELSE Head(ds).Removed + SumRemoved(Tail(ds))

\* Mutant of ReturnOf: the partial result is returned next to the error.
ReturnOfPartial(err, acc) == Returned(FALSE, acc, err)

\* Lines 97-106 / 163-166: what the call returns for the group's error err and
\* the accumulator acc.
ReturnOf(err, acc) ==
    IF err # NoError THEN Returned(TRUE, EmptyResult, err)
    ELSE IF mode = "Run"
         THEN Returned(FALSE, [Diffs        |-> acc.Diffs,
                               TotalAdded   |-> SumAdded(acc.Diffs),
                               TotalRemoved |-> SumRemoved(acc.Diffs)], NoError)
         ELSE Returned(FALSE, acc, NoError)

\* g.Wait, the return, and the deferred close of the channel.
Wait ==
    /\ runPc = "dispatch"
    /\ next > Len(jobs)
    /\ WaitReturns
    /\ runPc' = "returned"
    /\ ret' = ReturnOf(gerr, result)
    /\ closed' = DeferredClose
    /\ UNCHANGED <<cli, inputs, jobs, next, group, mu, result, pc, cd, tmp, calls,
                   buildErr, out, recv, sendOnClosed>>

\* ------------------------------------------------------------ the workers

\* Mutant of FirstError: every error replaces the one the group holds.
LatestError(old, err) == IF err # NoError THEN err ELSE old

\* errgroup's errOnce: the group keeps the first error a goroutine returns.
FirstError(old, err) == IF err # NoError /\ old = NoError THEN err ELSE old

\* The goroutine of job i returns err: errgroup keeps the first error, frees
\* the semaphore token and counts the goroutine done.
Done(i, err, final) ==
    /\ pc' = [pc EXCEPT ![i] = final]
    /\ gerr' = FirstError(gerr, err)
    /\ sem' = sem - 1
    /\ wg' = wg - 1

\* Mutant of OnBuildError: the build error is returned to the group.
OnBuildErrorFatal(err) == err

\* Lines 78-82 / 141-145: a build error is logged and the job returns nil.
OnBuildError(err) == NoError

\* Lines 84-86 / 147-149: a diff error is returned, wrapped.
OnDiffError(job, err) ==
    Errorf("computing diff for", <<job.cp.Path, job.env>> \o err)

\* buildPair fails: the worker logs the error and returns.
BuildFailed(i, err) ==
    /\ buildErr' = [buildErr EXCEPT ![i] = err]
    /\ Done(i, OnBuildError(err), "built-failed")

\* Mutant of BuildAborts: buildPair goes on after a failed build.
BuildNeverAborts(err) == FALSE

\* buildPair, lines 177 / 185: `if err != nil { return ... }`.
BuildAborts(err) == err # NoError

\* Mutant of AfterDirExists: the build is called whatever DirExists said.
AfterDirExistsBuild(exists, build, skip) == build

\* buildPair, lines 175 / 183: `if e.head.DirExists(cd.Path) {`; the build of
\* a side is called only when its directory exists.
AfterDirExists(exists, build, skip) == IF exists THEN build ELSE skip

\* The goroutine starts: cd := FromComponentPath(j.cp, j.env), and buildPair
\* asks the HEAD snapshot for the directory.
HeadDirExists(i) ==
    /\ pc[i] = "headDir"
    /\ LET c == FromComponentPath(jobs[i].cp, jobs[i].env)
       IN  /\ cd' = [cd EXCEPT ![i] = c]
           /\ calls' = [calls EXCEPT ![i] = Append(@, <<"head", "DirExists">>)]
           /\ pc' = [pc EXCEPT ![i] =
                        AfterDirExists(DirExists(head, c.Path), "headBuild", "baseDir")]
    /\ UNCHANGED <<cli, inputs, runPc, jobs, next, group, mu, result, ret, tmp,
                   buildErr, channel>>

\* buildPair, lines 176-179.
HeadBuild(i) ==
    /\ pc[i] = "headBuild"
    /\ LET r == BuildKustomization(head, cd[i].Path)
       IN  /\ cd' = [cd EXCEPT ![i].HeadYAML = r.yaml]
           /\ calls' = [calls EXCEPT ![i] = Append(@, <<"head", "BuildKustomization">>)]
           /\ IF BuildAborts(r.err)
              THEN BuildFailed(i, Errorf("building on HEAD", <<cd[i].Path>> \o r.err))
              ELSE /\ pc' = [pc EXCEPT ![i] = "baseDir"]
                   /\ UNCHANGED <<group, buildErr>>
    /\ UNCHANGED <<cli, inputs, runPc, jobs, next, mu, result, ret, tmp, channel>>

\* buildPair, line 183.
BaseDirExists(i) ==
    /\ pc[i] = "baseDir"
    /\ calls' = [calls EXCEPT ![i] = Append(@, <<"base", "DirExists">>)]
    /\ pc' = [pc EXCEPT ![i] =
                 AfterDirExists(DirExists(base, cd[i].Path), "baseBuild", "check")]
    /\ UNCHANGED <<cli, inputs, runPc, jobs, next, group, mu, result, ret, cd, tmp,
                   buildErr, channel>>

\* buildPair, lines 184-187.
BaseBuild(i) ==
    /\ pc[i] = "baseBuild"
    /\ LET r == BuildKustomization(base, cd[i].Path)
       IN  /\ cd' = [cd EXCEPT ![i].BaseYAML = r.yaml]
           /\ calls' = [calls EXCEPT ![i] = Append(@, <<"base", "BuildKustomization">>)]
           /\ IF BuildAborts(r.err)
              THEN BuildFailed(i, Errorf("building on base", <<cd[i].Path>> \o r.err))
              ELSE /\ pc' = [pc EXCEPT ![i] = "check"]
                   /\ UNCHANGED <<group, buildErr>>
    /\ UNCHANGED <<cli, inputs, runPc, jobs, next, mu, result, ret, tmp, channel>>

\* Mutant of BothAbsent: the test of line 190 never finds both sides absent.
BothAbsentIgnored(c) == FALSE

\* buildPair, line 190: `cd.BaseYAML == nil && cd.HeadYAML == nil`.
BothAbsent(c) == c.BaseYAML.isNil /\ c.HeadYAML.isNil

\* buildPair, lines 190-195: nothing on either side is an error.
BuildPairReturn(i) ==
    /\ pc[i] = "check"
    /\ IF BothAbsent(cd[i])
       THEN BuildFailed(i, <<"component does not exist on either ref", cd[i].Path>>)
       ELSE /\ pc' = [pc EXCEPT ![i] = "diff"]
            /\ UNCHANGED <<group, buildErr>>
    /\ UNCHANGED <<cli, inputs, runPc, jobs, next, mu, result, ret, cd, tmp, calls,
                   channel>>

\* Mutant of AfterHasDiff: RunProgressive appends without sending.
AfterHasDiffNoSend == "lock"

\* What follows the HasDiff test: Run locks (line 89), RunProgressive sends
\* first (line 152).
AfterHasDiff == IF mode = "Run" THEN "lock" ELSE "send"

\* Lines 84-88 / 147-151: computeDiff, then the HasDiff test.
AfterDiff(i, r) ==
    /\ cd' = [cd EXCEPT ![i] = r.cd]
    /\ IF r.err # NoError
       THEN Done(i, OnDiffError(jobs[i], r.err), "diff-error")
       ELSE IF HasDiff(r.cd)
            THEN /\ pc' = [pc EXCEPT ![i] = AfterHasDiff]
                 /\ UNCHANGED group
            ELSE Done(i, NoError, "diffed-empty")

ComputeDiff(i) ==
    /\ pc[i] = "diff"
    /\ \E w \in WriteErrors :
          \E r \in {ComputeDiffOf(cd[i], w)} : AfterDiff(i, r)
    /\ UNCHANGED <<cli, inputs, runPc, jobs, next, mu, result, ret, tmp, calls,
                   buildErr, channel>>

\* Mutant of HasRoom: the buffer takes any number of values.
HasRoomAlways == TRUE

\* A send on a buffered channel goes through when the buffer is not full.
HasRoom == Len(out) < chanCap

\* Line 152, `out <- *cd` on a buffered channel: waits for room in the buffer;
\* on a closed channel it panics.
Send(i) ==
    /\ pc[i] = "send"
    /\ chanCap > 0
    /\ IF closed > 0
       THEN /\ sendOnClosed' = TRUE
            /\ pc' = [pc EXCEPT ![i] = "panic"]
            /\ UNCHANGED out
       ELSE /\ HasRoom
            /\ out' = Append(out, cd[i])
            /\ pc' = [pc EXCEPT ![i] = "lock"]
            /\ UNCHANGED sendOnClosed
    /\ UNCHANGED <<cli, inputs, runPc, jobs, next, group, mu, result, ret, cd, tmp,
                   calls, buildErr, closed, recv>>

\* Line 152 on an unbuffered channel: the send is the consumer's receive.
Handoff(i) ==
    /\ pc[i] = "send"
    /\ chanCap = 0
    /\ IF closed > 0
       THEN /\ sendOnClosed' = TRUE
            /\ pc' = [pc EXCEPT ![i] = "panic"]
            /\ UNCHANGED recv
       ELSE /\ recv' = Append(recv, cd[i])
            /\ pc' = [pc EXCEPT ![i] = "lock"]
            /\ UNCHANGED sendOnClosed
    /\ UNCHANGED <<cli, inputs, runPc, jobs, next, group, mu, result, ret, cd, tmp,
                   calls, buildErr, out, closed>>

\* Mutant of MutexFree: Lock never waits.
MutexIgnored == TRUE

\* mu.Lock() goes through when no goroutine holds the mutex.
MutexFree == mu = 0

\* Line 89 / 153.
Lock(i) ==
    /\ pc[i] = "lock"
    /\ MutexFree
    /\ mu' = i
    /\ pc' = [pc EXCEPT ![i] = "append"]
    /\ UNCHANGED <<cli, inputs, runPc, jobs, next, group, result, ret, cd, tmp, calls,
                   buildErr, channel>>

\* Line 90 / 154, first half: append reads the slice.
AppendRead(i) ==
    /\ pc[i] = "append"
    /\ tmp' = [tmp EXCEPT ![i] = result.Diffs]
    /\ pc' = [pc EXCEPT ![i] = "store"]
    /\ UNCHANGED <<cli, inputs, runPc, jobs, next, group, mu, result, ret, cd, calls,
                   buildErr, channel>>

\* Mutant of AppendDiff: the grown slice is dropped.
AppendDiffLost(slice, c) == slice

\* append(results, *cd): the slice that was read, with a copy of cd behind it.
AppendDiff(slice, c) == Append(slice, c)

\* Line 90 / 154, second half: the grown slice is stored.
AppendStore(i) ==
    /\ pc[i] = "store"
    /\ result' = [result EXCEPT !.Diffs = AppendDiff(tmp[i], cd[i])]
    /\ tmp' = [tmp EXCEPT ![i] = <<>>]
    /\ pc' = [pc EXCEPT ![i] = IF mode = "Run" THEN "unlock" ELSE "addAdded"]
    /\ UNCHANGED <<cli, inputs, runPc, jobs, next, group, mu, ret, cd, calls,
                   buildErr, channel>>

\* Mutant of AccumulateAdded: the removed lines are added to TotalAdded.
AccumulateAddedFromRemoved(r, c) == [r EXCEPT !.TotalAdded = @ + c.Removed]

\* result.TotalAdded += cd.Added
AccumulateAdded(r, c) == [r EXCEPT !.TotalAdded = @ + c.Added]

\* result.TotalRemoved += cd.Removed
AccumulateRemoved(r, c) == [r EXCEPT !.TotalRemoved = @ + c.Removed]

\* Line 155.
AddTotalAdded(i) ==
    /\ pc[i] = "addAdded"
    /\ result' = AccumulateAdded(result, cd[i])
    /\ pc' = [pc EXCEPT ![i] = "addRemoved"]
    /\ UNCHANGED <<cli, inputs, runPc, jobs, next, group, mu, ret, cd, tmp, calls,
                   buildErr, channel>>

\* Line 156.
AddTotalRemoved(i) ==
    /\ pc[i] = "addRemoved"
    /\ result' = AccumulateRemoved(result, cd[i])
    /\ pc' = [pc EXCEPT ![i] = "unlock"]
    /\ UNCHANGED <<cli, inputs, runPc, jobs, next, group, mu, ret, cd, tmp, calls,
                   buildErr, channel>>

\* Line 91 / 157.
Unlock(i) ==
    /\ pc[i] = "unlock"
    /\ mu' = 0
    /\ pc' = [pc EXCEPT ![i] = "return"]
    /\ UNCHANGED <<cli, inputs, runPc, jobs, next, group, result, ret, cd, tmp, calls,
                   buildErr, channel>>

\* Line 93 / 159: return nil.
JobReturn(i) ==
    /\ pc[i] = "return"
    /\ Done(i, NoError, "diffed-nonempty")
    /\ UNCHANGED <<cli, inputs, runPc, jobs, next, mu, result, ret, cd, tmp, calls,
                   buildErr, channel>>

\* The consumer of the channel: `for cd := range ch`.
Receive ==
    /\ exitCode = -1
    /\ Len(out) > 0
    /\ recv' = Append(recv, Head(out))
    /\ out' = Tail(out)
    /\ UNCHANGED <<cli, inputs, runPc, jobs, next, group, mu, result, ret, pc, cd,
                   tmp, calls, buildErr, closed, sendOnClosed>>

Next ==
    \/ Collect
    \/ Wait
    \/ Receive
    \/ \E i \in DOMAIN pc : Go(i)
    \/ \E i \in DOMAIN pc : HeadDirExists(i)
    \/ \E i \in DOMAIN pc : HeadBuild(i)
    \/ \E i \in DOMAIN pc : BaseDirExists(i)
    \/ \E i \in DOMAIN pc : BaseBuild(i)
    \/ \E i \in DOMAIN pc : BuildPairReturn(i)
    \/ \E i \in DOMAIN pc : ComputeDiff(i)
    \/ \E i \in DOMAIN pc : Send(i)
    \/ \E i \in DOMAIN pc : Handoff(i)
    \/ \E i \in DOMAIN pc : Lock(i)
    \/ \E i \in DOMAIN pc : AppendRead(i)
    \/ \E i \in DOMAIN pc : AppendStore(i)
    \/ \E i \in DOMAIN pc : AddTotalAdded(i)
    \/ \E i \in DOMAIN pc : AddTotalRemoved(i)
    \/ \E i \in DOMAIN pc : Unlock(i)
    \/ \E i \in DOMAIN pc : JobReturn(i)

Spec == Init /\ [][Next]_vars

\* The goroutine that called Run or RunProgressive.
Dispatcher == Collect \/ Wait \/ \E i \in DOMAIN pc : Go(i)

\* The goroutine of job i.
Worker(i) ==
    /\ i \in DOMAIN pc
    /\ \/ HeadDirExists(i) \/ HeadBuild(i) \/ BaseDirExists(i) \/ BaseBuild(i)
       \/ BuildPairReturn(i) \/ ComputeDiff(i) \/ Send(i) \/ Handoff(i)
       \/ Lock(i) \/ AppendRead(i) \/ AppendStore(i) \/ AddTotalAdded(i)
       \/ AddTotalRemoved(i) \/ Unlock(i) \/ JobReturn(i)

\* The Go scheduler runs every goroutine that can take a step; the builder
\* calls return; the consumer keeps receiving.
Fairness ==
    /\ WF_vars(Dispatcher)
    /\ WF_vars(Receive)
    /\ \A i \in 1 .. MaxJobs : WF_vars(Worker(i))

FairSpec == Init /\ [][Next]_vars /\ Fairness

\* The same engine over every pair of renderings of one component.
SpecRenderings == InitRenderings /\ [][Next]_vars

\* ------------------------------------------------------------------ the CLI

\* The four output modes of main.go, lines 34-39.
OutputModes == {"local", "ci-summary", "ci-comment", "ci-artifact-dir"}

\* The value of --output-mode is a sequence of characters; a word (the name
\* of a mode, or another word) stands as one element, the comma and the
\* blank stand alone.

\* The index of the first comma of raw, 0 without one.
FirstComma(raw) ==
    IF \E k \in DOMAIN raw : raw[k] = ","
    THEN CHOOSE k \in DOMAIN raw :
            raw[k] = "," /\ \A j \in 1 .. k - 1 : raw[j] # ","
    ELSE 0

\* strings.Split(raw, ","): the items between the commas; the empty string
\* has one item, the empty one.
RECURSIVE SplitCommas(_)
SplitCommas(raw) ==
    IF FirstComma(raw) = 0 THEN <<raw>>
    ELSE <<SubSeq(raw, 1, FirstComma(raw) - 1)>>
         \o SplitCommas(SubSeq(raw, FirstComma(raw) + 1, Len(raw)))

\* No white space is cut off.
TrimSpaceNever(s) == s

\* strings.TrimSpace: the item without its leading and trailing blanks.
RECURSIVE TrimSpace(_)
TrimSpace(s) ==
    IF s = <<>> THEN s
    ELSE IF Head(s) = " " THEN TrimSpace(Tail(s))
    ELSE IF s[Len(s)] = " " THEN TrimSpace(SubSeq(s, 1, Len(s) - 1))
    ELSE s

\* The case of the switch: the trimmed item is the name of a mode.
IsOutputMode(s) == Len(s) = 1 /\ s[1] \in OutputModes

\* parseOutputModes, the loop over the items: a blank item is skipped, an
\* item that is no mode gives nil, a mode seen before is kept once.
RECURSIVE ParseFrom(_, _)
ParseFrom(raw, modes) ==
    IF raw = <<>> THEN modes
    ELSE IF TrimSpace(Head(raw)) = <<>> THEN ParseFrom(Tail(raw), modes)
    ELSE IF ~IsOutputMode(TrimSpace(Head(raw))) THEN <<>>
    ELSE IF \E k \in DOMAIN modes : modes[k] = TrimSpace(Head(raw))[1]
         THEN ParseFrom(Tail(raw), modes)
         ELSE ParseFrom(Tail(raw), Append(modes, TrimSpace(Head(raw))[1]))

\* parseOutputModes; nil is the empty list.
ParseOutputModes(raw) == ParseFrom(SplitCommas(raw), <<>>)

\* Names written with a comma between them.
RECURSIVE CommaSeparated(_)
CommaSeparated(names) ==
    IF Len(names) <= 1 THEN names
    ELSE <<Head(names), ",">> \o CommaSeparated(Tail(names))

\* The characters of a name of the model: "/" and "_" stand alone, every
\* other run of characters is one element.
Text(s) ==
    CASE s = "components/foo"    -> <<"components", "/", "foo">>
      [] s = "components/bar"    -> <<"components", "/", "bar">>
      [] s = "components/none"   -> <<"components", "/", "none">>
      [] s = "components/same"   -> <<"components", "/", "same">>
      [] s = "components/broken" -> <<"components", "/", "broken">>
      [] s = "components/gone"   -> <<"components", "/", "gone">>
      [] s = "components__foo"   -> <<"components", "_", "_", "foo">>
      [] OTHER                   -> <<s>>

\* strings.ReplaceAll(s, old, new) for an old of one character.
RECURSIVE ReplaceAll(_, _, _)
ReplaceAll(s, old, new) ==
    IF s = <<>> THEN <<>>
    ELSE (IF Head(s) = old THEN new ELSE <<Head(s)>>) \o ReplaceAll(Tail(s), old, new)

\* diffFileName: the slashes of the path become "__", then "__", the
\* environment and ".diff".
DiffFileName(componentPath, env) ==
    ReplaceAll(Text(componentPath), "/", <<"_", "_">>)
    \o <<"_", "_">> \o Text(env) \o <<".diff">>

\* The names of the model in the order of Go's string comparison.
Ascending ==
    <<"components/bar", "components/broken", "components/foo", "components/gone",
      "components/none", "components/same", "components__foo", "production",
      "staging">>

StringLess(a, b) ==
    \E i, j \in DOMAIN Ascending : Ascending[i] = a /\ Ascending[j] = b /\ i < j

\* The less function of sortDiffs: by environment, then by path.
Less(di, dj) ==
    IF di.Env # dj.Env THEN StringLess(di.Env, dj.Env)
    ELSE StringLess(di.Path, dj.Path)

\* The rearrangements of 1 .. n.
Perms(n) == {f \in [1 .. n -> 1 .. n] : \A i, j \in 1 .. n : i # j => f[i] # f[j]}

\* Mutant of SortDiffs: the slice is left in the order of arrival.
SortDiffsNever(ds) == {ds}

\* sortDiffs: sort.Slice is not stable, so the slice ends as any
\* rearrangement in which no entry is less than one before it.
SortDiffs(ds) ==
    {s \in {[k \in DOMAIN ds |-> ds[f[k]]] : f \in Perms(Len(ds))} :
        \A i, j \in DOMAIN s : i < j => ~Less(s[j], s[i])}

\* What a printed line shows of an entry.
Key(d) == <<d.Path, d.Env>>

Keys(ds) == [k \in DOMAIN ds |-> Key(ds[k])]

\* Something written to stdout: what it is, and the entries it shows.
Line(kind, what) == [kind |-> kind, what |-> what]

\* printComponentDiff for each entry of ds, in the order of ds.
PrintComponentDiffs(ds) == [k \in DOMAIN ds |-> Line("diff", <<Key(ds[k])>>)]

\* printSummary: nothing to sort without diffs; else sortDiffs on the slice
\* of the result itself, and the lines of the summary in the sorted order.
PrintSummary(r) ==
    IF Len(r.result.Diffs) = 0
    THEN {[ret |-> r, line |-> Line("summary", <<>>)]}
    ELSE {[ret  |-> [r EXCEPT !.result.Diffs = s],
           line |-> Line("summary", Keys(s))] : s \in SortDiffs(r.result.Diffs)}

\* os.WriteFile: the file of that name now holds the content.
WriteFile(fs, name, content) ==
    {f \in fs : f.name # name} \cup {[name |-> name, content |-> content]}

\* The loop of writeDiffFiles over the first n entries.
RECURSIVE WriteLoop(_, _, _)
WriteLoop(fs, ds, n) ==
    IF n = 0 THEN fs
    ELSE WriteFile(WriteLoop(fs, ds, n - 1),
                   DiffFileName(ds[n].Path, ds[n].Env), ds[n].Diff)

\* What can fail in writeDiffFiles: 0 is MkdirAll, k the k-th WriteFile, and
\* Len(ds) + 1 is nothing.
WriteFailures(ds) == 0 .. Len(ds) + 1

\* writeDiffFiles when the step `fails` fails: the files written before it
\* stay.
WriteDiffFiles(fs, ds, fails) ==
    IF fails = 0 THEN [files |-> fs, err |-> <<"creating output dir">>]
    ELSE IF fails <= Len(ds)
         THEN [files |-> WriteLoop(fs, ds, fails - 1), err |-> <<"writing">>]
         ELSE [files |-> WriteLoop(fs, ds, Len(ds)), err |-> NoError]

\* The capacity of the channel of runLocal.
LocalChanCap == 10

\* The names that can stand between the commas of --output-mode.
MaxModes == 2

ModeNames == OutputModes \cup {"bogus"}

CommandLines ==
    [outputMode : {CommaSeparated(names) :
                      names \in UNION {[1 .. n -> ModeNames] : n \in 1 .. MaxModes}},
     outputDir  : BOOLEAN,
     openDiff   : BOOLEAN]

\* A component of a cluster directory.
ClusterPath(path, dir) == [Path |-> path, ClusterDir |-> dir]

\* What the detector reports in the runs of main: nothing; one component in
\* two cluster directories; two components of one environment.
DetectorReports ==
    {[env \in {} |-> <<>>],
     [env \in {"staging"} |-> <<ClusterPath("components/foo", "cluster-a"),
                                ClusterPath("components/foo", "cluster-b")>>],
     [env \in {"staging"} |-> <<ComponentPath(Underscored),
                                ComponentPath("components/foo")>>]}

\* main starts: the flags are given, nothing ran yet.
InitCLI ==
    /\ mainPc = "flags"
    /\ flags \in CommandLines
    /\ deferred = <<>>
    /\ cleanups = 0
    /\ todo = <<>>
    /\ hadError = FALSE
    /\ stdout = <<>>
    /\ files = {}
    /\ exitCode = -1
    /\ mode = "Run"
    /\ concurrency = 0
    /\ head = HeadRepo
    /\ base = BaseRepo
    /\ affected = [env \in {} |-> <<>>]
    /\ chanCap = 0
    /\ runPc = "idle"
    /\ Fresh

\* The state of a call of the engine, but for what it returned.
call == <<runPc, jobs, next, sem, wg, gerr, mu, result, pc, cd, tmp, calls,
          buildErr, out, closed, recv, sendOnClosed>>

\* main goes on at l.
Goto(l) ==
    /\ mainPc' = l
    /\ UNCHANGED <<deferred, cleanups, exitCode>>

\* os.Exit(code): the process ends at once, deferred functions do not run.
Exit(code) ==
    /\ mainPc' = "exited"
    /\ exitCode' = code
    /\ UNCHANGED <<deferred, cleanups>>

\* logging.Fatal: the error is logged and the process exits with 1.
Fatal == Exit(1)

\* How often cleanup is among the deferred functions.
RECURSIVE Cleanups(_)
Cleanups(fs) ==
    IF fs = <<>> THEN 0
    ELSE (IF Head(fs) = "cleanup" THEN 1 ELSE 0) + Cleanups(Tail(fs))

\* main returns: its deferred functions run, and the process exits with 0.
MainReturns ==
    /\ mainPc = "return"
    /\ mainPc' = "exited"
    /\ exitCode' = 0
    /\ cleanups' = cleanups + Cleanups(deferred)
    /\ deferred' = <<>>
    /\ UNCHANGED <<inputs, call, ret, flags, todo, hadError, stdout, files>>

\* Lines 61-65: the output modes are parsed; none is an exit with 1.
ParseFlags ==
    /\ mainPc = "flags"
    /\ IF Len(ParseOutputModes(flags.outputMode)) = 0
       THEN Exit(1)
       ELSE Goto("TopLevel")
    /\ UNCHANGED <<inputs, call, ret, flags, todo, hadError, stdout, files>>

\* What follows each call of the git package before the changed files.
AfterGitCall ==
    [s \in {"TopLevel", "MergeBase", "ResolveBase", "ResolveHead"} |->
        CASE s = "TopLevel"    -> "MergeBase"
          [] s = "MergeBase"   -> "ResolveBase"
          [] s = "ResolveBase" -> "ResolveHead"
          [] s = "ResolveHead" -> "ChangedFiles"]

\* Lines 89-119: git.TopLevel, git.MergeBase and git.ResolveRef of the base
\* and of HEAD; an error is fatal.
GitCall ==
    /\ mainPc \in DOMAIN AfterGitCall
    /\ \E ok \in BOOLEAN : IF ok THEN Goto(AfterGitCall[mainPc]) ELSE Fatal
    /\ UNCHANGED <<inputs, call, ret, flags, todo, hadError, stdout, files>>

\* Line 127: `len(changedFiles) == 0`.
NoneChanged(n) == n = 0

\* Lines 123-130: git.ChangedFiles; an error is fatal, no file is a return.
ChangedFiles ==
    /\ mainPc = "ChangedFiles"
    /\ \E ok \in BOOLEAN, n \in 0 .. 1 :
          IF ~ok THEN Fatal /\ UNCHANGED stdout
          ELSE IF NoneChanged(n)
               THEN /\ stdout' = Append(stdout, Line("no changed files", <<>>))
                    /\ Goto("return")
               ELSE Goto("CreateWorktree") /\ UNCHANGED stdout
    /\ UNCHANGED <<inputs, call, ret, flags, todo, hadError, files>>

\* Lines 134-138: git.CreateWorktree; an error is fatal, else its cleanup is
\* deferred.
CreateWorktree ==
    /\ mainPc = "CreateWorktree"
    /\ \E ok \in BOOLEAN :
          IF ok
          THEN /\ mainPc' = "NewDetector"
               /\ deferred' = Append(deferred, "cleanup")
               /\ UNCHANGED <<cleanups, exitCode>>
          ELSE Fatal
    /\ UNCHANGED <<inputs, call, ret, flags, todo, hadError, stdout, files>>

\* Lines 145-148: detector.NewDetector; an error is fatal.
NewDetector ==
    /\ mainPc = "NewDetector"
    /\ \E ok \in BOOLEAN : IF ok THEN Goto("AffectedComponents") ELSE Fatal
    /\ UNCHANGED <<inputs, call, ret, flags, todo, hadError, stdout, files>>

\* Lines 149-152: d.AffectedComponents; an error is fatal.
AffectedComponents ==
    /\ mainPc = "AffectedComponents"
    /\ \E ok \in BOOLEAN :
          IF ok
          THEN /\ affected' \in DetectorReports
               /\ Goto("NewEngine")
          ELSE Fatal /\ UNCHANGED affected
    /\ UNCHANGED <<mode, concurrency, head, base, chanCap, call, ret, flags,
                   todo, hadError, stdout, files>>

\* Lines 155-158: the number of component paths of the map.
RECURSIVE TotalOver(_, _)
TotalOver(m, D) ==
    IF D = {} THEN 0
    ELSE LET env == CHOOSE e \in D : TRUE
         IN  Len(m[env]) + TotalOver(m, D \ {env})

TotalJobs(m) == TotalOver(m, DOMAIN m)

\* Mutant of NoJobs: the engine is started without a job.
NoJobsIgnored(total) == FALSE

\* Line 159: `totalJobs == 0`.
NoJobs(total) == total = 0

\* Local is the first output mode, whatever follows it.
OnlyLocalFirst(modes) == Len(modes) >= 1 /\ modes[1] = "local"

\* Line 169: local is the only output mode.
OnlyLocal(modes) == Len(modes) = 1 /\ modes[1] = "local"

\* Where main waits for the engine: in runLocal with --output-dir, with
\* --open or with progressive output, and in main itself for the other modes.
Waits ==
    IF OnlyLocal(ParseOutputModes(flags.outputMode))
    THEN IF flags.outputDir THEN "runLocal files"
         ELSE IF flags.openDiff THEN "runLocal open"
         ELSE "runLocal progressive"
    ELSE "engine.Run"

\* Lines 159-175 and 235-271: without a job main returns; else the engine is
\* made with a concurrency of totalJobs and Run or RunProgressive is called.
StartEngine ==
    /\ mainPc = "NewEngine"
    /\ IF NoJobs(TotalJobs(affected))
       THEN /\ stdout' = Append(stdout, Line("no affected components", <<>>))
            /\ Goto("return")
            /\ UNCHANGED <<mode, concurrency, chanCap, runPc>>
       ELSE /\ \E numCPU \in 1 .. MaxConcurrency :
                  concurrency' = NewEngine(TotalJobs(affected), numCPU)
            /\ mode' = IF Waits = "runLocal progressive"
                       THEN "RunProgressive" ELSE "Run"
            /\ chanCap' = IF Waits = "runLocal progressive"
                          THEN LocalChanCap ELSE 0
            /\ runPc' = "collect"
            /\ Goto(Waits)
            /\ UNCHANGED stdout
    /\ UNCHANGED <<head, base, affected, jobs, next, group, mu, result, ret, pc,
                   cd, tmp, calls, buildErr, channel, flags, todo, hadError,
                   files>>

\* runLocal, lines 238-249: Run, writeDiffFiles, printSummary; an error of
\* either is fatal.
LocalFiles ==
    /\ mainPc = "runLocal files"
    /\ runPc = "returned"
    /\ IF ret.err # NoError
       THEN Fatal /\ UNCHANGED <<ret, stdout, files>>
       ELSE \E fails \in WriteFailures(ret.result.Diffs) :
               \E w \in {WriteDiffFiles(files, ret.result.Diffs, fails)} :
                  /\ files' = w.files
                  /\ IF w.err # NoError
                     THEN Fatal /\ UNCHANGED <<ret, stdout>>
                     ELSE \E p \in PrintSummary(ret) :
                             /\ ret' = p.ret
                             /\ stdout' = Append(stdout, p.line)
                             /\ Goto("return")
    /\ UNCHANGED <<inputs, call, flags, todo, hadError>>

\* runLocal, lines 251-261: Run, openInDiffTool; an error of either is fatal.
LocalOpen ==
    /\ mainPc = "runLocal open"
    /\ runPc = "returned"
    /\ IF ret.err # NoError
       THEN Fatal
       ELSE \E ok \in BOOLEAN : IF ok THEN Goto("return") ELSE Fatal
    /\ UNCHANGED <<inputs, call, ret, flags, todo, hadError, stdout, files>>

\* runLocal, lines 271-275: RunProgressive returned; an error is fatal, else
\* printSummary. The consumer goroutine is not waited for.
LocalProgressive ==
    /\ mainPc = "runLocal progressive"
    /\ runPc = "returned"
    /\ IF ret.err # NoError
       THEN Fatal /\ UNCHANGED <<ret, stdout>>
       ELSE \E p \in PrintSummary(ret) :
               /\ ret' = p.ret
               /\ stdout' = Append(stdout, p.line)
               /\ Goto("return")
    /\ UNCHANGED <<inputs, call, flags, todo, hadError, files>>

\* Lines 175-178: Run returned to main; an error is fatal, else the loop over
\* the modes starts.
RunResult ==
    /\ mainPc = "engine.Run"
    /\ runPc = "returned"
    /\ IF ret.err # NoError
       THEN Fatal /\ UNCHANGED todo
       ELSE /\ todo' = ParseOutputModes(flags.outputMode)
            /\ Goto("modes")
    /\ UNCHANGED <<inputs, call, ret, flags, hadError, stdout, files>>

\* The loop of lines 180-186 runs the next mode, which is m.
NextMode(m) ==
    /\ mainPc = "modes"
    /\ todo # <<>>
    /\ Head(todo) = m
    /\ todo' = Tail(todo)
    /\ Goto("modes")

\* runOutputMode, local (lines 197-213): writeDiffFiles with --output-dir,
\* then openInDiffTool with --open, else every diff and the summary are
\* printed.
ModeLocal ==
    /\ NextMode("local")
    /\ \E fails \in IF flags.outputDir THEN WriteFailures(ret.result.Diffs)
                                       ELSE {Len(ret.result.Diffs) + 1} :
          \E w \in {IF flags.outputDir
                    THEN WriteDiffFiles(files, ret.result.Diffs, fails)
                    ELSE [files |-> files, err |-> NoError]} :
             /\ files' = w.files
             /\ IF w.err # NoError
                THEN hadError' = TRUE /\ UNCHANGED <<ret, stdout>>
                ELSE IF flags.openDiff
                     THEN /\ \E ok \in BOOLEAN : hadError' = (hadError \/ ~ok)
                          /\ UNCHANGED <<ret, stdout>>
                     ELSE \E p \in PrintSummary(ret) :
                             /\ ret' = p.ret
                             /\ stdout' = stdout \o PrintComponentDiffs(ret.result.Diffs)
                                                 \o <<p.line>>
                             /\ UNCHANGED hadError
    /\ UNCHANGED <<inputs, call, flags>>

\* The slice of the result after sortDiffs, which is skipped without diffs.
Sorted(r) ==
    IF Len(r.result.Diffs) = 0 THEN {r}
    ELSE {[r EXCEPT !.result.Diffs = s] : s \in SortDiffs(r.result.Diffs)}

\* runOutputMode, ci-summary (writeCISummary): the file of
\* GITHUB_STEP_SUMMARY cannot be opened, or the markdown goes to it, or to
\* stdout when the variable is not set; the diffs are sorted in place.
ModeCISummary ==
    /\ NextMode("ci-summary")
    /\ \E to \in {"unopened", "file", "stdout"} :
          IF to = "unopened"
          THEN hadError' = TRUE /\ UNCHANGED <<ret, stdout>>
          ELSE \E r \in Sorted(ret) :
                  /\ ret' = r
                  /\ stdout' = IF to = "stdout"
                               THEN Append(stdout, Line("ci-summary", Keys(r.result.Diffs)))
                               ELSE stdout
                  /\ UNCHANGED hadError
    /\ UNCHANGED <<inputs, call, flags, files>>

\* runOutputMode, ci-comment (postCIComment): buildCommentBody sorts the
\* diffs in place; the body is printed without the CI variables, else it is
\* posted, which can fail.
ModeCIComment ==
    /\ NextMode("ci-comment")
    /\ \E to \in {"stdout", "posted", "failed"} :
          \E r \in Sorted(ret) :
             /\ ret' = r
             /\ stdout' = IF to = "stdout"
                          THEN Append(stdout, Line("ci-comment", Keys(r.result.Diffs)))
                          ELSE stdout
             /\ hadError' = (hadError \/ to = "failed")
    /\ UNCHANGED <<inputs, call, flags, files>>

\* runOutputMode, ci-artifact-dir (lines 222-229): an error without
\* --output-dir, else writeDiffFiles and a line with the count.
ModeCIArtifact ==
    /\ NextMode("ci-artifact-dir")
    /\ IF ~flags.outputDir
       THEN hadError' = TRUE /\ UNCHANGED <<stdout, files>>
       ELSE \E fails \in WriteFailures(ret.result.Diffs) :
               \E w \in {WriteDiffFiles(files, ret.result.Diffs, fails)} :
                  /\ files' = w.files
                  /\ IF w.err # NoError
                     THEN hadError' = TRUE /\ UNCHANGED stdout
                     ELSE /\ stdout' = Append(stdout, Line("wrote", Keys(ret.result.Diffs)))
                          /\ UNCHANGED hadError
    /\ UNCHANGED <<inputs, call, ret, flags>>

\* Lines 187-189: after the loop, a failed mode is os.Exit(1); else main
\* returns.
AfterModes ==
    /\ mainPc = "modes"
    /\ todo = <<>>
    /\ IF hadError THEN Exit(1) ELSE Goto("return")
    /\ UNCHANGED <<inputs, call, ret, flags, todo, hadError, stdout, files>>

\* main, the engine it calls and the consumer goroutine of runLocal; the
\* channel of runLocal is buffered, so no send is a handoff.
NextCLI ==
    \/ ParseFlags
    \/ GitCall
    \/ ChangedFiles
    \/ CreateWorktree
    \/ NewDetector
    \/ AffectedComponents
    \/ StartEngine
    \/ LocalFiles
    \/ LocalOpen
    \/ LocalProgressive
    \/ RunResult
    \/ ModeLocal
    \/ ModeCISummary
    \/ ModeCIComment
    \/ ModeCIArtifact
    \/ AfterModes
    \/ MainReturns
    \/ Collect
    \/ Wait
    \/ Receive
    \/ \E i \in DOMAIN pc : Go(i)
    \/ \E i \in DOMAIN pc : HeadDirExists(i)
    \/ \E i \in DOMAIN pc : HeadBuild(i)
    \/ \E i \in DOMAIN pc : BaseDirExists(i)
    \/ \E i \in DOMAIN pc : BaseBuild(i)
    \/ \E i \in DOMAIN pc : BuildPairReturn(i)
    \/ \E i \in DOMAIN pc : ComputeDiff(i)
    \/ \E i \in DOMAIN pc : Send(i)
    \/ \E i \in DOMAIN pc : Lock(i)
    \/ \E i \in DOMAIN pc : AppendRead(i)
    \/ \E i \in DOMAIN pc : AppendStore(i)
    \/ \E i \in DOMAIN pc : AddTotalAdded(i)
    \/ \E i \in DOMAIN pc : AddTotalRemoved(i)
    \/ \E i \in DOMAIN pc : Unlock(i)
    \/ \E i \in DOMAIN pc : JobReturn(i)

SpecCLI == InitCLI /\ [][NextCLI]_vars

\* ------------------------------------------------------ what the inputs say

Terminal == {"built-failed", "diffed-empty", "diffed-nonempty", "diff-error"}

\* The jobs whose goroutine was started and has not returned.
InFlight == {i \in DOMAIN pc : pc[i] \notin Terminal \cup {"pending"}}

\* What a snapshot renders for the job's path: nothing when the directory is
\* missing.
Rendering(repo, job) ==
    IF repo[job.cp.Path].exists THEN repo[job.cp.Path].yaml ELSE NilBytes

\* The build of the job's directory fails on the snapshot.
BuildErrors(repo, job) ==
    repo[job.cp.Path].exists /\ repo[job.cp.Path].err # NoError

\* The job's path is a directory of neither snapshot.
OnNeitherRef(job) ==
    ~head[job.cp.Path].exists /\ ~base[job.cp.Path].exists

\* buildPair cannot succeed for the job.
BuildPairFails(job) ==
    \/ BuildErrors(head, job)
    \/ BuildErrors(base, job)
    \/ Rendering(head, job).isNil /\ Rendering(base, job).isNil

\* The two renderings of the job are different strings.
RenderingsDiffer(job) ==
    String(Rendering(head, job)) # String(Rendering(base, job))

\* The entries of a Diffs slice that belong to the job's (path, env).
EntriesOf(diffs, job) ==
    {k \in DOMAIN diffs : diffs[k].Path = job.cp.Path /\ diffs[k].Env = job.env}

\* How often the (path, env) key of c occurs in the sequence ds.
KeyCount(ds, c) ==
    Cardinality({k \in DOMAIN ds : ds[k].Path = c.Path /\ ds[k].Env = c.Env})

\* Two sequences of ComponentDiffs hold the same collection of keys.
SameKeys(xs, ys) ==
    /\ Len(xs) = Len(ys)
    /\ \A k \in DOMAIN xs : KeyCount(xs, xs[k]) = KeyCount(ys, xs[k])

\* Everything sent on the channel so far: received, or still in the buffer.
Emitted == recv \o out

\* The Diffs of what was returned; a nil result has none.
ReturnedDiffs == IF ret.isNil THEN <<>> ELSE ret.result.Diffs

\* An entry carries a build error.
HasError(d) == "Error" \in DOMAIN d /\ d.Error # ""

\* Sum of f over the entries of ds whose index is in idx.
RECURSIVE SumOver(_, _, _)
SumOver(ds, idx, field) ==
    IF idx = {} THEN 0
    ELSE LET k == CHOOSE x \in idx : TRUE
         IN  ds[k][field] + SumOver(ds, idx \ {k}, field)

\* The entries of ds that have a diff.
WithDiffText(ds) == {k \in DOMAIN ds : ds[k].Diff # <<>>}

\* ------------------------------------------------------------------ claims

\* C1: with a concurrency cap K, at most K jobs are started and not finished,
\* in Run and in RunProgressive, and while K jobs are in flight the dispatcher
\* cannot start another one.
TheoremC1 ==
    /\ Cardinality(InFlight) <= concurrency
    /\ Cardinality(InFlight) = concurrency => ~ENABLED (\E i \in DOMAIN pc : Go(i))

\* C1 witness: the cap is reached while a job is still waiting to be started.
WitnessC1 ==
    /\ Cardinality(InFlight) = concurrency
    /\ runPc = "dispatch"
    /\ next <= Len(jobs)

\* C2: when no diff computation fails, build failures do not abort the run:
\* the error is nil, every job whose build can succeed is built and diffed, and
\* each of them with differing renderings is in the returned result.
TheoremC2 ==
    (runPc = "returned" /\ \A i \in DOMAIN pc : pc[i] # "diff-error")
    => /\ ret.err = NoError
       /\ ~ret.isNil
       /\ \A i \in DOMAIN jobs :
             ~BuildPairFails(jobs[i])
             => /\ pc[i] \in {"diffed-empty", "diffed-nonempty"}
                /\ RenderingsDiffer(jobs[i])
                   => EntriesOf(ret.result.Diffs, jobs[i]) # {}

\* C2 witness: a run returned with one job's build failed and another job's
\* diff in the result.
WitnessC2 ==
    /\ runPc = "returned"
    /\ ret.err = NoError
    /\ \E i, j \in DOMAIN pc :
          /\ pc[i] = "built-failed"
          /\ pc[j] = "diffed-nonempty"
          /\ EntriesOf(ReturnedDiffs, jobs[j]) # {}

\* C3: a job whose directory exists on a ref and whose build on that ref fails
\* has an entry with its Error set in the returned DiffResult.
CounterexampleC3 ==
    (runPc = "returned" /\ ~ret.isNil)
    => \A i \in DOMAIN jobs :
          (BuildErrors(head, jobs[i]) \/ BuildErrors(base, jobs[i]))
          => \E k \in EntriesOf(ret.result.Diffs, jobs[i]) :
                HasError(ret.result.Diffs[k])

\* C4: a job whose path is on neither snapshot never makes the run return an
\* error and is never left out of the returned result.
CounterexampleC4 ==
    runPc = "returned"
    => \A i \in DOMAIN jobs :
          OnNeitherRef(jobs[i])
          => /\ (ret.err # NoError => \E j \in DOMAIN pc : pc[j] = "diff-error")
             /\ ~ret.isNil => EntriesOf(ret.result.Diffs, jobs[i]) # {}

\* C5: once a job's diff computation failed, no job that has not started is
\* started.
CounterexampleC5 ==
    [][(\E i \in DOMAIN pc : pc[i] = "diff-error")
       => \A j \in DOMAIN pc : pc[j] = "pending" => pc'[j] = "pending"]_vars

\* C6: the returned error is non-nil exactly when some job's diff computation
\* failed; then the result is nil, and otherwise the result is not nil.
TheoremC6 ==
    runPc = "returned"
    => /\ ret.err # NoError <=> \E i \in DOMAIN pc : pc[i] = "diff-error"
       /\ ret.err # NoError => ret.isNil
       /\ ret.err = NoError => ~ret.isNil

\* C6 witness: a run returned an error after a diff was already accumulated.
WitnessC6 ==
    /\ runPc = "returned"
    /\ ret.err # NoError
    /\ ret.isNil
    /\ result.Diffs # <<>>

\* C7 as stated: whatever the outcome of RunProgressive, the keys sent on the
\* channel are the keys of the Diffs of what it returned.
CounterexampleC7 ==
    (mode = "RunProgressive" /\ runPc = "returned")
    => SameKeys(Emitted, ReturnedDiffs)

\* C7 amended: when RunProgressive returns a nil error, the keys sent on the
\* channel are the keys of the Diffs of the returned DiffResult.
TheoremC7 ==
    (mode = "RunProgressive" /\ runPc = "returned" /\ ret.err = NoError)
    => SameKeys(Emitted, ReturnedDiffs)

\* C7 witness: RunProgressive returned without error after two diffs were sent.
WitnessC7 ==
    /\ mode = "RunProgressive"
    /\ runPc = "returned"
    /\ ret.err = NoError
    /\ Len(Emitted) = 2
    /\ Len(ReturnedDiffs) = 2

\* C8: RunProgressive closes the channel exactly once, when it returns, on
\* every path, only after every started job has finished, and no worker sends
\* on the closed channel.
TheoremC8 ==
    mode = "RunProgressive"
    => /\ closed <= 1
       /\ closed = 1 <=> runPc = "returned"
       /\ closed >= 1 => InFlight = {}
       /\ ~sendOnClosed
       /\ \A i \in DOMAIN pc : pc[i] # "panic"

\* C8 witness: the channel was closed by a run that ended with a fatal error
\* after a diff had been sent.
WitnessC8 ==
    /\ mode = "RunProgressive"
    /\ closed = 1
    /\ gerr # NoError
    /\ Emitted # <<>>

\* C9: the totals of a returned DiffResult are the sums of Added and Removed
\* over its entries that have a diff, which are the jobs that ended with a
\* diff; in RunProgressive the accumulated totals equal the sums over the
\* accumulated Diffs whenever no worker holds the lock.
TheoremC9 ==
    /\ (runPc = "returned" /\ ~ret.isNil)
       => /\ ret.result.TotalAdded =
                SumOver(ret.result.Diffs, WithDiffText(ret.result.Diffs), "Added")
          /\ ret.result.TotalRemoved =
                SumOver(ret.result.Diffs, WithDiffText(ret.result.Diffs), "Removed")
          /\ ret.result.TotalAdded =
                SumOver(cd, {i \in DOMAIN pc : pc[i] = "diffed-nonempty"}, "Added")
          /\ ret.result.TotalRemoved =
                SumOver(cd, {i \in DOMAIN pc : pc[i] = "diffed-nonempty"}, "Removed")
    /\ (mode = "RunProgressive" /\ mu = 0)
       => /\ result.TotalAdded =
                SumOver(result.Diffs, WithDiffText(result.Diffs), "Added")
          /\ result.TotalRemoved =
                SumOver(result.Diffs, WithDiffText(result.Diffs), "Removed")

\* C9 witness: RunProgressive returned totals that differ from each other,
\* summed over two diffs.
WitnessC9 ==
    /\ mode = "RunProgressive"
    /\ runPc = "returned"
    /\ ~ret.isNil
    /\ Len(ret.result.Diffs) = 2
    /\ ret.result.TotalAdded = 2
    /\ ret.result.TotalRemoved = 1

\* C10: when the run returns without error, Diffs holds exactly one entry for
\* each job whose build succeeded with differing renderings and none for any
\* other job, whatever the interleaving and the cap.
TheoremC10 ==
    (runPc = "returned" /\ ret.err = NoError)
    => /\ \A i \in DOMAIN jobs :
             Cardinality(EntriesOf(ret.result.Diffs, jobs[i])) =
                IF ~BuildPairFails(jobs[i]) /\ RenderingsDiffer(jobs[i]) THEN 1 ELSE 0
       /\ \A k \in DOMAIN ret.result.Diffs :
             \E i \in DOMAIN jobs : k \in EntriesOf(ret.result.Diffs, jobs[i])

\* C10 witness: two workers ran side by side and both their diffs are in the
\* returned result, next to none for a job with identical renderings.
WitnessC10 ==
    /\ runPc = "returned"
    /\ ret.err = NoError
    /\ concurrency >= 2
    /\ Len(ret.result.Diffs) = 2

\* The affected map holds no component path at all.
ZeroPaths == \A env \in DOMAIN affected : affected[env] = <<>>

\* The RepoBuilder calls of all jobs so far.
BuilderCalls == UNION {{<<i, k>> : k \in DOMAIN calls[i]} : i \in DOMAIN calls}

\* C11: for an affected map without any component path, Run and RunProgressive
\* return a non-nil empty DiffResult and a nil error, no job is ever started
\* and no DirExists or BuildKustomization call is made on either snapshot.
TheoremC11 ==
    ZeroPaths
    => /\ BuilderCalls = {}
       /\ InFlight = {}
       /\ ~ENABLED (\E i \in DOMAIN pc : Go(i))
       /\ runPc = "returned"
          => /\ ~ret.isNil
             /\ ret.err = NoError
             /\ ret.result.Diffs = <<>>
             /\ ret.result.TotalAdded = 0
             /\ ret.result.TotalRemoved = 0

\* C11 witness: RunProgressive returned for a map whose environments all have
\* empty lists.
WitnessC11 ==
    /\ DOMAIN affected = Envs
    /\ ZeroPaths
    /\ mode = "RunProgressive"
    /\ runPc = "returned"
    /\ closed = 1

\* The job's computeDiff returned without error.
Diffed(i) ==
    pc[i] \in {"send", "lock", "append", "store", "addAdded", "addRemoved",
               "unlock", "return", "diffed-nonempty", "diffed-empty"}

\* The lines of the two renderings as difflib sees them.
BaseLines(c) == SplitLines(String(c.BaseYAML))

HeadLines(c) == SplitLines(String(c.HeadYAML))

\* The number of lines of b that the opcodes insert.
RECURSIVE InsertedLines(_)
InsertedLines(codes) ==
    IF codes = <<>> THEN 0
    ELSE (IF codes[1].tag \in {"r", "i"} THEN codes[1].j2 - codes[1].j1 ELSE 0)
         + InsertedLines(Tail(codes))

\* The number of lines of a that the opcodes delete.
RECURSIVE DeletedLines(_)
DeletedLines(codes) ==
    IF codes = <<>> THEN 0
    ELSE (IF codes[1].tag \in {"r", "d"} THEN codes[1].i2 - codes[1].i1 ELSE 0)
         + DeletedLines(Tail(codes))

\* The lines of a diff text behind its two file-header lines that start with
\* the mark.
BodyLines(lines, mark) ==
    Cardinality({k \in 3 .. Len(lines) : Len(lines[k]) > 0 /\ lines[k][1] = mark})

\* C12: after computeDiff of two differing renderings, Added is the number of
\* lines the unified diff inserts and Removed the number it deletes, which are
\* the lines of the diff text behind the file header that start with + and
\* with -, whatever the lines hold; neither is negative.
CounterexampleC12 ==
    \A i \in DOMAIN pc :
        (Diffed(i) /\ String(cd[i].BaseYAML) # String(cd[i].HeadYAML))
        => /\ cd[i].Added = InsertedLines(GetOpCodes(BaseLines(cd[i]), HeadLines(cd[i])))
           /\ cd[i].Removed = DeletedLines(GetOpCodes(BaseLines(cd[i]), HeadLines(cd[i])))
           /\ cd[i].Added = BodyLines(Split(cd[i].Diff), "+")
           /\ cd[i].Removed = BodyLines(Split(cd[i].Diff), "-")
           /\ cd[i].Added >= 0
           /\ cd[i].Removed >= 0

\* The directory of the job is on this snapshot only, and its build there
\* returns no error.
OnlyOn(repo, other, job) ==
    /\ repo[job.cp.Path].exists
    /\ repo[job.cp.Path].err = NoError
    /\ ~other[job.cp.Path].exists

\* The number of lines of a text: its newlines, and a last line without one.
LineCount(s) ==
    Cardinality({k \in DOMAIN s : s[k] = NL})
    + (IF s # <<>> /\ s[Len(s)] # NL THEN 1 ELSE 0)

\* C13: when the run returns without error, a job whose path is only on HEAD
\* and builds there has an entry in the result with no BaseYAML, the built
\* bytes as HeadYAML, a non-empty Diff, Removed = 0 and Added = the number of
\* lines of HeadYAML, whatever the bytes; and the same with the sides swapped
\* for a path that is only on base.
CounterexampleC13 ==
    (runPc = "returned" /\ ret.err = NoError)
    => \A i \in DOMAIN jobs :
          /\ OnlyOn(head, base, jobs[i])
             => \E k \in EntriesOf(ret.result.Diffs, jobs[i]) :
                   /\ ret.result.Diffs[k].BaseYAML.isNil
                   /\ ret.result.Diffs[k].HeadYAML = head[jobs[i].cp.Path].yaml
                   /\ ret.result.Diffs[k].Diff # <<>>
                   /\ ret.result.Diffs[k].Removed = 0
                   /\ ret.result.Diffs[k].Added =
                         LineCount(String(head[jobs[i].cp.Path].yaml))
          /\ OnlyOn(base, head, jobs[i])
             => \E k \in EntriesOf(ret.result.Diffs, jobs[i]) :
                   /\ ret.result.Diffs[k].HeadYAML.isNil
                   /\ ret.result.Diffs[k].BaseYAML = base[jobs[i].cp.Path].yaml
                   /\ ret.result.Diffs[k].Diff # <<>>
                   /\ ret.result.Diffs[k].Added = 0
                   /\ ret.result.Diffs[k].Removed =
                         LineCount(String(base[jobs[i].cp.Path].yaml))

\* The job's computeDiff returned, with or without an error.
DiffRan(i) == Diffed(i) \/ pc[i] = "diff-error"

\* The two renderings of the job hold the same bytes.
SameBytes(c) == String(c.BaseYAML) = String(c.HeadYAML)

\* C14 as stated: after computeDiff of byte-identical renderings there is no
\* error, no Diff, no counts and HasDiff is false, also when difflib would
\* fail; after computeDiff of differing renderings Diff is not empty.
CounterexampleC14 ==
    \A i \in DOMAIN pc :
        DiffRan(i)
        => /\ SameBytes(cd[i])
              => /\ pc[i] = "diffed-empty"
                 /\ cd[i].Diff = <<>>
                 /\ cd[i].Added = 0
                 /\ cd[i].Removed = 0
                 /\ ~HasDiff(cd[i])
           /\ ~SameBytes(cd[i]) => cd[i].Diff # <<>>

\* C14 amended: as stated, with Diff non-empty for differing renderings when
\* computeDiff returns no error.
TheoremC14 ==
    \A i \in DOMAIN pc :
        DiffRan(i)
        => /\ SameBytes(cd[i])
              => /\ pc[i] = "diffed-empty"
                 /\ cd[i].Diff = <<>>
                 /\ cd[i].Added = 0
                 /\ cd[i].Removed = 0
                 /\ ~HasDiff(cd[i])
           /\ (~SameBytes(cd[i]) /\ pc[i] # "diff-error")
              => /\ cd[i].Diff # <<>>
                 /\ HasDiff(cd[i])
                 /\ pc[i] # "diffed-empty"

\* C14 witness: computeDiff ran on two empty renderings and left no diff.
WitnessC14 ==
    /\ 1 \in DOMAIN pc
    /\ pc[1] = "diffed-empty"
    /\ cd[1].BaseYAML = Bytes(<<>>)
    /\ cd[1].HeadYAML = Bytes(<<>>)
    /\ cd[1].Diff = <<>>

\* buildPair of the job returned.
BuildPairReturned(i) == pc[i] \in {"diff", "built-failed"} \/ DiffRan(i)

\* buildPair of the job returned the error of a component on neither ref.
NeitherRefError(i) ==
    /\ buildErr[i] # NoError
    /\ buildErr[i][1] = "component does not exist on either ref"

\* C15: buildPair returns the 'does not exist on either ref' error exactly
\* when DirExists is false on both snapshots; when the path is on at least one
\* snapshot and no build fails, buildPair returns no error whatever the bytes.
CounterexampleC15 ==
    \A i \in DOMAIN pc :
        BuildPairReturned(i)
        => /\ NeitherRefError(i) <=> OnNeitherRef(jobs[i])
           /\ (/\ ~OnNeitherRef(jobs[i])
               /\ ~BuildErrors(head, jobs[i])
               /\ ~BuildErrors(base, jobs[i]))
              => /\ buildErr[i] = NoError
                 /\ pc[i] # "built-failed"

\* The job has made this call on this snapshot.
Called(i, side, method) == \E k \in DOMAIN calls[i] : calls[i][k] = <<side, method>>

\* The positions of the job's calls on a snapshot.
CallsOn(i, side) == {k \in DOMAIN calls[i] : calls[i][k][1] = side}

\* The error buildPair of the job returned starts with this message.
TaggedError(i, tag) == buildErr[i] # NoError /\ buildErr[i][1] = tag

\* C16: within a job every call on the HEAD snapshot comes before every call
\* on the base snapshot, each snapshot is asked DirExists before it builds; a
\* failed HEAD build ends the job with an error tagged 'on HEAD' and without
\* any call on the base snapshot; a failed base build ends it with an error
\* tagged 'on base'.
TheoremC16 ==
    \A i \in DOMAIN calls :
        /\ \A k \in CallsOn(i, "head"), m \in CallsOn(i, "base") : k < m
        /\ calls[i] # <<>> => calls[i][1] = <<"head", "DirExists">>
        /\ CallsOn(i, "base") # {}
           => \E k \in CallsOn(i, "base") :
                 /\ calls[i][k] = <<"base", "DirExists">>
                 /\ \A m \in CallsOn(i, "base") : k <= m
        /\ (Called(i, "head", "BuildKustomization") /\ BuildErrors(head, jobs[i]))
           => /\ CallsOn(i, "base") = {}
              /\ pc[i] = "built-failed"
              /\ TaggedError(i, "building on HEAD")
        /\ (Called(i, "base", "BuildKustomization") /\ BuildErrors(base, jobs[i]))
           => /\ pc[i] = "built-failed"
              /\ TaggedError(i, "building on base")

\* C16 witness: the HEAD build of a component failed, the component is a
\* directory of the base snapshot too, and the job ended after two calls.
WitnessC16 ==
    /\ 1 \in DOMAIN pc
    /\ pc[1] = "built-failed"
    /\ BuildErrors(head, jobs[1])
    /\ base[jobs[1].cp.Path].exists
    /\ calls[1] = <<<<"head", "DirExists">>, <<"head", "BuildKustomization">>>>
    /\ TaggedError(1, "building on HEAD")

\* The jobs whose computeDiff left a non-empty diff.
WithNonEmptyDiff == {i \in DOMAIN pc : Diffed(i) /\ HasDiff(cd[i])}

\* The consumer has received nothing: what a run without a consumer looks like.
NothingReceived == recv = <<>>

\* C17, the part that holds in every state: the buffer never holds more than
\* its capacity; a send on the open buffered channel can proceed exactly when
\* the buffer is not full; as long as nothing was received at most `capacity`
\* values were emitted, and once more jobs than that have a non-empty diff
\* the run has not returned, it cannot return, and a sender is waiting.
SendBlocksWhileFull ==
    mode = "RunProgressive"
    => /\ Len(out) <= chanCap
       /\ \A i \in DOMAIN pc :
             (pc[i] = "send" /\ chanCap > 0 /\ closed = 0)
             => (ENABLED Send(i) <=> Len(out) < chanCap)
       /\ NothingReceived
          => /\ Len(Emitted) <= chanCap
             /\ Cardinality(WithNonEmptyDiff) > chanCap
                => /\ runPc # "returned"
                   /\ ~ENABLED Wait
                   /\ \E i \in DOMAIN pc : pc[i] = "send"

\* C17: with a consumer that keeps receiving and builder calls that return,
\* RunProgressive eventually returns and the channel is eventually closed,
\* for every capacity and every cap; and in every state a send waits exactly
\* while the buffer is full, so that without a receive at most `capacity`
\* values are emitted and the run does not return once more jobs than that
\* have a non-empty diff.
TheoremC17 ==
    /\ (mode = "RunProgressive") ~> (runPc = "returned" /\ closed = 1)
    /\ []SendBlocksWhileFull

\* C17 witness: nothing was received, the buffer is full, and a second job
\* with a non-empty diff waits in its send.
WitnessC17 ==
    /\ mode = "RunProgressive"
    /\ NothingReceived
    /\ chanCap = 1
    /\ Len(out) = 1
    /\ concurrency = 2
    /\ \E i \in DOMAIN pc : pc[i] = "send" /\ HasDiff(cd[i])

\* C18: in RunProgressive every entry of the accumulated Diffs was sent on
\* the channel before: the same value is among what was emitted, and no key
\* is in Diffs more often than it was emitted.
TheoremC18 ==
    mode = "RunProgressive"
    => \A k \in DOMAIN result.Diffs :
          /\ \E m \in DOMAIN Emitted : Emitted[m] = result.Diffs[k]
          /\ KeyCount(result.Diffs, result.Diffs[k]) <= KeyCount(Emitted, result.Diffs[k])

\* C18 witness: one diff is sent and appended, a second one is sent and not
\* yet appended.
WitnessC18 ==
    /\ mode = "RunProgressive"
    /\ Len(result.Diffs) = 1
    /\ Len(Emitted) = 2
    /\ \E i \in DOMAIN pc : pc[i] = "lock"

\* Where a worker is between mu.Lock() and mu.Unlock(): the append and the
\* update of the two counters.
CriticalSection == {"append", "store", "addAdded", "addRemoved", "unlock"}

\* The workers inside the critical section.
InCriticalSection == {i \in DOMAIN pc : pc[i] \in CriticalSection}

\* Where a worker is in a builder call, in computeDiff or in the channel send.
OutsideLock == {"headDir", "headBuild", "baseDir", "baseBuild", "check", "diff", "send"}

\* C19: the lock is held exactly by the worker that is appending or updating
\* the counters: at most one worker is there, no worker holds the lock in a
\* builder call or in a channel send, and a worker that waits for the lock
\* waits for a worker that is in the critical section, never for a sender.
TheoremC19 ==
    /\ Cardinality(InCriticalSection) <= 1
    /\ mu = 0 => InCriticalSection = {}
    /\ mu # 0 => InCriticalSection = {mu}
    /\ \A i \in DOMAIN pc : pc[i] \in OutsideLock => mu # i
    /\ \A j \in DOMAIN pc :
          (pc[j] = "lock" /\ InCriticalSection = {}) => ENABLED Lock(j)

\* C19 witness: a worker waits in its send on the full channel while another
\* worker holds the lock.
WitnessC19 ==
    /\ chanCap = 1
    /\ Len(out) = 1
    /\ mu # 0
    /\ \E i \in DOMAIN pc : pc[i] = "send" /\ i # mu

\* Where the goroutine of a job is while buildPair runs.
Building == {"headDir", "headBuild", "baseDir", "baseBuild", "check"}

\* One step of job i in the state machine of a job: pending jobs stay or
\* start building, a started job never becomes pending again, each terminal
\* state is entered from the stage it ends, and a terminal state is kept.
JobStep(i) ==
    /\ i \in DOMAIN pc'
    /\ pc[i] = "pending" => pc'[i] \in {"pending", "headDir"}
    /\ pc[i] # "pending" => pc'[i] # "pending"
    /\ pc[i] \in Terminal => pc'[i] = pc[i]
    /\ (pc'[i] = "built-failed" /\ pc[i] # "built-failed") => pc[i] \in Building
    /\ (pc'[i] \in {"diffed-empty", "diff-error"} /\ pc[i] # pc'[i]) => pc[i] = "diff"
    /\ (pc'[i] = "diffed-nonempty" /\ pc[i] # pc'[i]) => pc[i] = "return"
    /\ (pc'[i] = "diff" /\ pc[i] # "diff") => pc[i] \in Building

\* Run has returned and every job is in a terminal state.
RunReturnedAllTerminal ==
    /\ runPc = "returned"
    /\ \A i \in DOMAIN jobs : i \in DOMAIN pc /\ pc[i] \in Terminal

\* C20: every job goes from pending through building to one terminal state
\* and stays there; Run returns only with every job in a terminal state, and
\* with builder calls that return and fair scheduling it eventually does.
TheoremC20 ==
    /\ [][\A i \in DOMAIN pc : JobStep(i)]_vars
    /\ []((mode = "Run" /\ runPc = "returned") => RunReturnedAllTerminal)
    /\ (mode = "Run") ~> RunReturnedAllTerminal

\* C20 witness: Run returned with one job built-failed and one job diff-error.
WitnessC20 ==
    /\ mode = "Run"
    /\ RunReturnedAllTerminal
    /\ \E i, j \in DOMAIN pc : pc[i] = "built-failed" /\ pc[j] = "diff-error"

\* The job's goroutine is past buildPair and buildPair returned no error.
PastBuildPair(i) == pc[i] \notin Building \cup {"pending", "built-failed"}

\* Both snapshots render nothing for the job.
RendersNothing(job) ==
    Rendering(head, job).isNil /\ Rendering(base, job).isNil

\* C21: every entry that was accumulated, sent or returned has a BaseYAML or
\* a HeadYAML that is not nil; a job whose two sides are both absent never
\* reaches computeDiff and contributes no entry.
TheoremC21 ==
    /\ \A d \in {result.Diffs[k] : k \in DOMAIN result.Diffs}
             \cup {Emitted[k] : k \in DOMAIN Emitted}
             \cup {ReturnedDiffs[k] : k \in DOMAIN ReturnedDiffs} :
          ~BothAbsent(d)
    /\ \A i \in DOMAIN pc :
          /\ PastBuildPair(i) => ~BothAbsent(cd[i])
          /\ RendersNothing(jobs[i])
             => /\ ~PastBuildPair(i)
                /\ EntriesOf(result.Diffs, jobs[i]) = {}
                /\ EntriesOf(Emitted, jobs[i]) = {}
                /\ EntriesOf(ReturnedDiffs, jobs[i]) = {}

\* C21 witness: both builds succeeded with nothing rendered, the job ended
\* as a build failure and the call returned without an entry for it.
WitnessC21 ==
    /\ runPc = "returned"
    /\ \E i \in DOMAIN pc :
          /\ RendersNothing(jobs[i])
          /\ ~OnNeitherRef(jobs[i])
          /\ Called(i, "head", "BuildKustomization")
          /\ Called(i, "base", "BuildKustomization")
          /\ pc[i] = "built-failed"
          /\ ReturnedDiffs = <<>>

\* C22: the limit of the engine is at least 1, so a dispatcher that has a job
\* left and no job in flight can start it: g.Go does not block.
TheoremC22 ==
    /\ concurrency >= 1
    /\ SetLimit >= 1
    /\ (runPc = "dispatch" /\ next <= Len(jobs) /\ sem = 0) => ENABLED Go(next)

\* C22 witness: an engine made from a negative concurrency on one CPU has
\* started a job, which fills its limit of 1 while another job waits.
WitnessC22 ==
    /\ concurrency = NewEngine(-1, 1)
    /\ runPc = "dispatch"
    /\ sem = SetLimit
    /\ next = 2
    /\ Len(jobs) = 2

\* The jobs whose goroutine returned a diff error.
DiffFailed == {i \in DOMAIN pc : pc[i] = "diff-error"}

\* Job i returns its diff error in this step.
FailsNow(i) == pc[i] = "diff" /\ pc'[i] = "diff-error"

\* The error of job i's computeDiff, wrapped with its path and environment.
WrappedDiffError(i) ==
    {OnDiffError(jobs[i], w) : w \in WriteErrors \ {NoError}}

\* C29: the error of the group is set by the first job whose goroutine
\* returns a diff error, to that error wrapped with the job's path and
\* environment; a job failing later leaves it as it is, and the call returns
\* exactly that error.
TheoremC29 ==
    /\ [][\A i \in DOMAIN pc :
            FailsNow(i) =>
               IF DiffFailed = {}
               THEN gerr = NoError /\ gerr' \in WrappedDiffError(i)
               ELSE gerr # NoError /\ gerr' = gerr]_vars
    /\ [][gerr # NoError => gerr' = gerr]_vars
    /\ [](runPc = "returned" => ret.err = gerr)
    /\ []((runPc = "returned" /\ DiffFailed # {})
           => /\ ret.isNil
              /\ \E i \in DiffFailed : ret.err \in WrappedDiffError(i))

\* C29 witness: two jobs failed in computeDiff, and the call returned the
\* error of the second job of the slice, which failed first.
WitnessC29 ==
    /\ runPc = "returned"
    /\ Cardinality(DiffFailed) = 2
    /\ ret.err \in WrappedDiffError(2)
    /\ ret.err \notin WrappedDiffError(1)

\* ------------------------------------------------------- claims on the CLI

\* main has the result of the engine and presents it.
Presenting == mainPc # "library" /\ runPc = "returned"

\* C23: no presentation operation changes the DiffResult it is given, the
\* order of its Diffs included: once the engine returned, the result stays
\* as it was returned.
CounterexampleC23 == [][Presenting => ret' = ret]_vars

\* The worktree of the base revision was created.
WorktreeCreated == Cleanups(deferred) > 0 \/ cleanups > 0

\* C24: when the process has exited after the worktree was created, the
\* cleanup of the worktree ran exactly once.
CounterexampleC24 ==
    (mainPc = "exited" /\ WorktreeCreated) => cleanups = 1

\* The orders in which the entries of ds can arrive.
Arrivals(ds) == {[k \in DOMAIN ds |-> ds[f[k]]] : f \in Perms(Len(ds))}

\* What sortDiffs can make of the entries of ds, over all their arrivals.
SortedArrivals(ds) == UNION {SortDiffs(a) : a \in Arrivals(ds)}

\* How often the entry d occurs in ds.
Occurrences(ds, d) == Cardinality({k \in DOMAIN ds : ds[k] = d})

\* s holds the entries of ds, each as often.
IsPermutation(s, ds) ==
    /\ Len(s) = Len(ds)
    /\ \A k \in DOMAIN ds : Occurrences(s, ds[k]) = Occurrences(ds, ds[k])

\* s ascends by Env, then Path.
IsOrdered(s) == \A i, j \in DOMAIN s : i < j => ~Less(s[j], s[i])

\* C25: for the entries main presents, sortDiffs gives one and the same
\* sequence whatever the order they arrived in: a permutation ordered by Env
\* and then Path.
CounterexampleC25 ==
    (Presenting /\ ~ret.isNil)
    => /\ Cardinality(SortedArrivals(ret.result.Diffs)) = 1
       /\ \A s \in SortedArrivals(ret.result.Diffs) :
             IsPermutation(s, ret.result.Diffs) /\ IsOrdered(s)

\* C25 as amended: whatever the order of arrival, sortDiffs gives a
\* permutation ordered by Env and then Path, and the sequence of (Path, Env)
\* keys is one and the same; a step of main that changes the result leaves
\* it such a permutation.
TheoremC25 ==
    /\ []((Presenting /\ ~ret.isNil)
          => /\ \A s \in SortedArrivals(ret.result.Diffs) :
                   IsPermutation(s, ret.result.Diffs) /\ IsOrdered(s)
             /\ Cardinality({Keys(s) : s \in SortedArrivals(ret.result.Diffs)}) = 1)
    /\ [][(Presenting /\ ret' # ret)
          => /\ IsPermutation(ret'.result.Diffs, ret.result.Diffs)
             /\ IsOrdered(ret'.result.Diffs)
             /\ [ret' EXCEPT !.result.Diffs = ret.result.Diffs] = ret]_vars

\* C25 witness: the summary was printed for two entries of one path and
\* environment, sorted with the entry of cluster-b before that of cluster-a.
WitnessC25 ==
    /\ Presenting
    /\ \E k \in DOMAIN stdout : stdout[k].kind = "summary" /\ Len(stdout[k].what) = 2
    /\ Len(ret.result.Diffs) = 2
    /\ Key(ret.result.Diffs[1]) = Key(ret.result.Diffs[2])
    /\ ret.result.Diffs[1].ClusterDir = "cluster-b"
    /\ ret.result.Diffs[2].ClusterDir = "cluster-a"

\* writeDiffFiles ran to its end: the ci-artifact-dir mode printed its count,
\* or runLocal went on to the summary.
WroteDiffFiles ==
    \/ \E k \in DOMAIN stdout : stdout[k].kind = "wrote"
    \/ Waits = "runLocal files" /\ mainPc = "return"

\* C26: when writeDiffFiles has written the result, no two entries have the
\* same file name and the directory holds one file per entry.
CounterexampleC26 ==
    (Presenting /\ WroteDiffFiles)
    => /\ \A i, j \in DOMAIN ret.result.Diffs :
             i # j => DiffFileName(ret.result.Diffs[i].Path, ret.result.Diffs[i].Env)
                      # DiffFileName(ret.result.Diffs[j].Path, ret.result.Diffs[j].Env)
       /\ Cardinality(files) = Len(ret.result.Diffs)

\* Where main is before it starts the engine.
BeforeEngine ==
    {"flags", "TopLevel", "MergeBase", "ResolveBase", "ResolveHead",
     "ChangedFiles", "CreateWorktree", "NewDetector", "AffectedComponents",
     "NewEngine"}

\* Neither Run nor RunProgressive was called, and no builder was asked.
EngineIdle == runPc = "idle" /\ Fresh /\ ret = NotReturned

\* C27: before it starts the engine main leaves it idle; a step that ends
\* main there, by a fatal error or by a return for nothing to diff, leaves the
\* engine idle, and it stays idle after that; an engine that was started has
\* a job.
TheoremC27 ==
    /\ [](mainPc \in BeforeEngine => EngineIdle)
    /\ []((mainPc # "library" /\ ~EngineIdle) => TotalJobs(affected) > 0)
    /\ [][(mainPc \in BeforeEngine /\ mainPc' \in {"return", "exited"})
          => EngineIdle']_vars
    /\ [][(mainPc \in {"return", "exited"} /\ EngineIdle) => EngineIdle']_vars

\* C27 witness: the detector failed after the worktree was created and the
\* process has exited with 1 without a call of the engine.
WitnessC27 ==
    /\ mainPc = "exited"
    /\ exitCode = 1
    /\ deferred = <<"cleanup">>
    /\ EngineIdle

\* The local mode ran to its end.
LocalRan ==
    \/ Waits = "runLocal files" /\ mainPc = "return"
    \/ /\ mainPc = "modes"
       /\ \E k \in DOMAIN ParseOutputModes(flags.outputMode) :
             ParseOutputModes(flags.outputMode)[k] = "local"
       /\ \A k \in DOMAIN todo : todo[k] # "local"

\* C28: with --output-dir, no diff of a component is printed; when the local
\* mode has run and no mode failed, every entry has its file.
CounterexampleC28 ==
    flags.outputDir
    => /\ \A k \in DOMAIN stdout : stdout[k].kind # "diff"
       /\ (LocalRan /\ ~hadError)
          => \A k \in DOMAIN ret.result.Diffs :
                \E f \in files :
                   f.name = DiffFileName(ret.result.Diffs[k].Path,
                                         ret.result.Diffs[k].Env)

\* C30: when runLocal has printed the summary of a progressive run, and when
\* the process has exited, nothing that was sent is left in the channel: the
\* consumer has printed it.
CounterexampleC30 ==
    (mode = "RunProgressive" /\ mainPc \in {"return", "exited"}) => out = <<>>

\* ----------------------------------------------- claims on the whole run

\* What the inputs alone say the ComponentDiff of a job is after buildPair
\* and computeDiff without a write error.
ExpectedDiff(job) ==
    ComputeDiffOf([FromComponentPath(job.cp, job.env)
                      EXCEPT !.HeadYAML = Rendering(head, job),
                             !.BaseYAML = Rendering(base, job)], NoError).cd

\* The entries of js that are to be in the result, in the order of js.
RECURSIVE ExpectedDiffs(_)
ExpectedDiffs(js) ==
    IF js = <<>> THEN <<>>
    ELSE (IF ~BuildPairFails(Head(js)) /\ HasDiff(ExpectedDiff(Head(js)))
          THEN <<ExpectedDiff(Head(js))>> ELSE <<>>)
         \o ExpectedDiffs(Tail(js))

\* The result the inputs determine, in one fixed order of the keys of the
\* map: no schedule, no order of iteration and no cap enters it.
Expected ==
    ExpectedDiffs(CollectJobs(affected, CHOOSE o \in KeyOrders(affected) : TRUE))

\* C31: when Run returns without error, its Diffs are a permutation of the
\* entries the inputs determine, field by field, and its totals are their
\* sums, whatever the schedule, the order of the map and the cap.
TheoremC31 ==
    (mode = "Run" /\ runPc = "returned" /\ ret.err = NoError)
    => \E e \in {Expected} :
          /\ IsPermutation(ret.result.Diffs, e)
          /\ ret.result.TotalAdded = SumAdded(e)
          /\ ret.result.TotalRemoved = SumRemoved(e)

\* C31 witness: Run returned two entries under a cap of 2 in another order
\* than the fixed one.
WitnessC31 ==
    /\ mode = "Run"
    /\ runPc = "returned"
    /\ ret.err = NoError
    /\ concurrency = 2
    /\ Len(ret.result.Diffs) = 2
    /\ ret.result.Diffs # Expected
    /\ IsPermutation(ret.result.Diffs, Expected)

\* C32: Run and RunProgressive return the same aggregate for the same
\* inputs: either returns an error exactly when a computeDiff failed, and
\* then a nil result; else Diffs that are a permutation of the entries the
\* inputs determine, with their sums as totals.
TheoremC32 ==
    runPc = "returned"
    => /\ mode \in {"Run", "RunProgressive"}
       /\ ret.err # NoError <=> DiffFailed # {}
       /\ ret.err # NoError => ret.isNil
       /\ ret.err = NoError
          => \E e \in {Expected} :
                /\ ~ret.isNil
                /\ IsPermutation(ret.result.Diffs, e)
                /\ ret.result.TotalAdded = SumAdded(e)
                /\ ret.result.TotalRemoved = SumRemoved(e)

\* C32 witness: RunProgressive returned two entries with totals that differ
\* from each other, and the consumer has drained the channel.
WitnessC32 ==
    /\ mode = "RunProgressive"
    /\ runPc = "returned"
    /\ ret.err = NoError
    /\ out = <<>>
    /\ Len(recv) = 2
    /\ Len(ret.result.Diffs) = 2
    /\ ret.result.TotalAdded # ret.result.TotalRemoved
    /\ ret.result.TotalAdded = SumAdded(Expected)

\* How often job i made this call on this snapshot.
CallCount(i, side, method) ==
    Cardinality({k \in DOMAIN calls[i] : calls[i][k] = <<side, method>>})

\* The snapshot of a side.
Snapshot(side) == IF side = "head" THEN head ELSE base

\* Every BuildKustomization of job i on the side comes after a DirExists of
\* job i on that side, and the directory of the job is in that snapshot.
BuildAfterDirExists(i, side) ==
    \A k \in DOMAIN calls[i] :
        calls[i][k] = <<side, "BuildKustomization">>
        => /\ \E m \in 1 .. k - 1 : calls[i][m] = <<side, "DirExists">>
           /\ Snapshot(side)[jobs[i].cp.Path].exists

\* The goroutine of job i has made its ComponentDiff.
HasShell(i) == pc[i] \notin {"pending", "headDir"}

\* C33: the ComponentDiff of every worker has the Path, ClusterDir and Env of
\* its job; per job and side DirExists and BuildKustomization are called at
\* most once, the build only after DirExists said true; a started job is
\* never started again, and when the call returns every job was processed.
TheoremC33 ==
    /\ [](\A i \in DOMAIN pc :
            /\ HasShell(i)
               => /\ cd[i].Path = jobs[i].cp.Path
                  /\ cd[i].ClusterDir = jobs[i].cp.ClusterDir
                  /\ cd[i].Env = jobs[i].env
            /\ \A side \in {"head", "base"} :
                  /\ CallCount(i, side, "DirExists") <= 1
                  /\ CallCount(i, side, "BuildKustomization") <= 1
                  /\ BuildAfterDirExists(i, side))
    /\ [](DOMAIN pc = DOMAIN jobs \/ runPc \in {"collect", "idle"})
    /\ [](runPc = "returned" => \A i \in DOMAIN pc : pc[i] \in Terminal)
    /\ [][\A i \in DOMAIN pc :
            /\ i \in DOMAIN pc'
            /\ pc[i] # "pending" => pc'[i] # "pending"
            /\ pc[i] # "headDir" /\ pc'[i] = "headDir" => pc[i] = "pending"]_vars

\* C33 witness: the call returned after two jobs; one built both sides, the
\* other, whose directory is in the base snapshot only, built the base alone.
WitnessC33 ==
    /\ runPc = "returned"
    /\ Len(jobs) = 2
    /\ \E i, j \in DOMAIN pc :
          /\ CallCount(i, "head", "BuildKustomization") = 1
          /\ CallCount(i, "base", "BuildKustomization") = 1
          /\ CallCount(j, "head", "DirExists") = 1
          /\ CallCount(j, "head", "BuildKustomization") = 0
          /\ CallCount(j, "base", "BuildKustomization") = 1
          /\ cd[j].Path = jobs[j].cp.Path
          /\ cd[i].Env = jobs[i].env

\* C34: when the call has returned, with a result or an error, no job is in
\* flight, the group and the mutex are at rest, and no step after it makes a
\* builder call, changes the accumulator or a ComponentDiff, or sends.
TheoremC34 ==
    /\ [](runPc = "returned"
          => /\ InFlight = {}
             /\ \A i \in DOMAIN pc : pc[i] \in Terminal
             /\ wg = 0
             /\ sem = 0
             /\ mu = 0)
    /\ [][runPc = "returned"
          => /\ runPc' = "returned"
             /\ calls' = calls
             /\ result' = result
             /\ cd' = cd
             /\ pc' = pc
             /\ Emitted' = Emitted
             /\ sendOnClosed' = sendOnClosed]_vars

\* C34 witness: RunProgressive returned an error after one job failed in
\* computeDiff and the other had sent its diff, which the consumer has still
\* to receive.
WitnessC34 ==
    /\ mode = "RunProgressive"
    /\ runPc = "returned"
    /\ ret.err # NoError
    /\ Len(out) = 1
    /\ \E i, j \in DOMAIN pc : pc[i] = "diff-error" /\ pc[j] = "diffed-nonempty"

\* The output modes of the command line, as main parsed them.
Listed == ParseOutputModes(flags.outputMode)

\* The last k modes of the list.
Remaining(k) == SubSeq(Listed, Len(Listed) - k + 1, Len(Listed))

\* The kind of the last line a mode prints.
LastLineOf ==
    [m \in OutputModes |->
        CASE m = "local"           -> "summary"
          [] m = "ci-summary"      -> "ci-summary"
          [] m = "ci-comment"      -> "ci-comment"
          [] m = "ci-artifact-dir" -> "wrote"]

\* main is in the loop over the modes with a mode left to run.
ModeIsNext == mainPc = "modes" /\ todo # <<>>

\* What the engine returned, but for the order of its Diffs.
SameResult(r, q) ==
    /\ r.err = q.err
    /\ r.isNil = q.isNil
    /\ r.result.TotalAdded = q.result.TotalAdded
    /\ r.result.TotalRemoved = q.result.TotalRemoved
    /\ IsPermutation(r.result.Diffs, q.result.Diffs)

\* C35: with a mode list other than [local], the engine is called once, with
\* Run; every mode of the list is run in the listed order on the one result
\* of that call, whether or not an earlier mode failed; ci-artifact-dir
\* without --output-dir fails; and once the modes were run the process exits
\* with 1 if a mode failed and with 0 if none did. RunProgressive is called
\* only when the mode list is [local].
TheoremC35 ==
    /\ [](mode = "RunProgressive" => Listed = <<"local">>)
    /\ [](mainPc = "modes"
          => /\ Listed # <<"local">>
             /\ mode = "Run"
             /\ runPc = "returned"
             /\ ret.err = NoError
             /\ todo = Remaining(Len(todo)))
    /\ []((mainPc = "exited" /\ runPc = "returned" /\ ret.err = NoError
           /\ Listed # <<"local">>)
          => /\ todo = <<>>
             /\ exitCode = IF hadError THEN 1 ELSE 0)
    /\ [][/\ runPc \notin {"idle", "collect"} => runPc' \notin {"idle", "collect"}
          /\ hadError => hadError'
          /\ hadError' # hadError => ModeIsNext
          /\ mainPc = "modes"
             => /\ UNCHANGED <<call, flags>>
                /\ SameResult(ret', ret)
          /\ ModeIsNext
             => /\ mainPc' = "modes"
                /\ todo' = Tail(todo)
                /\ stdout' # stdout
                   => /\ stdout'[Len(stdout')].kind = LastLineOf[Head(todo)]
                      /\ hadError' = hadError
                /\ (Head(todo) = "ci-artifact-dir" /\ ~flags.outputDir)
                   => hadError'
          /\ (mainPc = "modes" /\ todo = <<>>)
             => /\ mainPc' = IF hadError THEN "exited" ELSE "return"
                /\ hadError => exitCode' = 1]_vars

\* C35 witness: ci-artifact-dir without --output-dir failed first, ci-summary
\* then printed the two diffs of the one result, and the process exited
\* with 1.
WitnessC35 ==
    /\ mainPc = "exited"
    /\ exitCode = 1
    /\ flags.outputMode = <<"ci-artifact-dir", ",", "ci-summary">>
    /\ ~flags.outputDir
    /\ hadError
    /\ todo = <<>>
    /\ Len(ret.result.Diffs) = 2
    /\ Len(stdout) = 1
    /\ stdout[1].kind = "ci-summary"
    /\ Len(stdout[1].what) = 2

\* ------------------------------------------------- parseOutputModes alone

\* The longest value of --output-mode, in characters.
MaxRawLen == 6

\* Every value of --output-mode of at most MaxRawLen characters, the empty
\* one included.
RawModes == UNION {[1 .. n -> ModeNames \cup {",", " "}] : n \in 0 .. MaxRawLen}

\* main after flag.Parse, with any value of --output-mode.
InitParse ==
    /\ mainPc = "flags"
    /\ flags \in [outputMode : RawModes, outputDir : {FALSE}, openDiff : {FALSE}]
    /\ deferred = <<>>
    /\ cleanups = 0
    /\ todo = <<>>
    /\ hadError = FALSE
    /\ stdout = <<>>
    /\ files = {}
    /\ exitCode = -1
    /\ mode = "Run"
    /\ concurrency = 0
    /\ head = HeadRepo
    /\ base = BaseRepo
    /\ affected = [env \in {} |-> <<>>]
    /\ chanCap = 0
    /\ runPc = "idle"
    /\ Fresh

\* main up to the check of the parsed modes.
SpecParse == InitParse /\ [][ParseFlags]_vars

\* The items between the commas of the value.
Items == SplitCommas(flags.outputMode)

\* The words of an item, its blanks left out.
Words(item) == SelectSeq(item, LAMBDA c : c # " ")

\* The items that are not blank.
NonBlank == {k \in DOMAIN Items : Words(Items[k]) # <<>>}

\* The non-blank items that are not the name of a mode.
Invalid ==
    {k \in NonBlank : Len(Words(Items[k])) # 1 \/ Words(Items[k])[1] \notin OutputModes}

\* The first item that names the mode m.
FirstAt(m) ==
    CHOOSE k \in NonBlank :
       /\ Words(Items[k]) = <<m>>
       /\ \A j \in NonBlank : j < k => Words(Items[j]) # <<m>>

\* C36: parseOutputModes gives nil when a non-blank item is no mode and when
\* no item is non-blank; else it gives the modes the non-blank items name,
\* blanks around them ignored, each once and in the order of their first
\* items; main exits with 1 exactly on the empty list; and parsing the parsed
\* list, written with commas, gives the list again.
TheoremC36 ==
    \E r \in {ParseOutputModes(flags.outputMode)} :
       /\ Invalid # {} => r = <<>>
       /\ NonBlank = {} => r = <<>>
       /\ Invalid = {}
          => /\ {r[k] : k \in DOMAIN r} = {Words(Items[k])[1] : k \in NonBlank}
             /\ \A a, b \in DOMAIN r :
                   a < b => r[a] # r[b] /\ FirstAt(r[a]) < FirstAt(r[b])
       /\ mainPc # "flags"
          => ((mainPc = "exited" /\ exitCode = 1) <=> (Invalid # {} \/ NonBlank = {}))
       /\ mainPc \in {"flags", "exited", "TopLevel"}
       /\ ParseOutputModes(CommaSeparated(r)) = r

\* C36 witness: main went on with two modes parsed from three items, the
\* second written after a blank and the first named twice.
WitnessC36 ==
    /\ mainPc = "TopLevel"
    /\ flags.outputMode = <<"ci-summary", ",", " ", "local", ",", "ci-summary">>
    /\ Cardinality(NonBlank) = 3
    /\ Invalid = {}
    /\ ParseOutputModes(flags.outputMode) = <<"ci-summary", "local">>

====
